---- MODULE Spec2Model ----
(***************************************************************************)
(* Quantum chess server: the classical board (ClassicalBoard), the         *)
(* per-colour superposition maps (QuantumStateManager) and the websocket   *)
(* "move" handler that drives them, for one room with both players         *)
(* connected; and the room table, the sockets' data and the game database  *)
(* that create_room, join_room, move and close read and write.             *)
(*                                                                         *)
(* A Position is the pair <<row, col>>.  A Piece is the record             *)
(* [type, color, id]; id stands for the identity of the JavaScript object  *)
(* that initializeBoard allocates for a starting square: the board and the *)
(* quantum records hold references to these objects, the code never        *)
(* compares them, the properties below do.                                 *)
(***************************************************************************)
EXTENDS Integers, Sequences, FiniteSets, TLC

VARIABLES
    board,               \* ClassicalBoard.board: 8 rows of 8 squares, each a Piece or NoPiece
    currentTurn,         \* ClassicalBoard.currentTurn
    whiteQuantumPieces,  \* QuantumStateManager.whiteQuantumPieces (Map, insertion order)
    blackQuantumPieces,  \* QuantumStateManager.blackQuantumPieces (Map, insertion order)
    reply,               \* the last message the handler sent to the requester
    last,                \* the handler's locals of the last accepted move
    movedIds,            \* history: ids of the pieces that accepted moves have relocated
    nAccepted,           \* history: number of accepted moves (bounds the exploration)
    requester,           \* ws.data.color of the socket whose request was handled last
    outbox,              \* the messages the handler sent while handling it, each with
                         \* the colour of the socket it went to (move) or the socket
    rooms,               \* the Map rooms, by room code: white, black, gameId, moveCount
    wsData,              \* ws.data of each socket: room code and colour
    db,                  \* GameDatabase: the rows of the tables games and moves
    closed               \* the sockets whose close handler has run

vars == <<board, currentTurn, whiteQuantumPieces, blackQuantumPieces, reply, last, movedIds,
          nAccepted, requester, outbox, rooms, wsData, db, closed>>

roomVars == <<rooms, wsData, db, closed>>

----------------------------------------------------------------------------
(* Bounds *)

\* Accepted moves explored from the starting position, per specification.
MaxPly == 5

MaxPlyKnights == 7

MaxPlyCastle == 5

MaxPlyProbe == 5

MaxPlyCapture == 6

MaxPlyTriggers == 5

MaxPlyPawn == 8

MaxPlyQuiet == 8

MaxPlyKings == 9

MaxPlySelfCheck == 4

MaxPlyEdge == 4

MaxPlyRoom == 2

\* Number of room codes generateRoomCode hands out.
MaxRooms == 2

\* How far off the board (in rows and columns) a requested destination may lie.
MaxOffBoard == 2

----------------------------------------------------------------------------
(* Types of chess.ts *)

Colors == {"white", "black"}

PieceTypes == {"pawn", "knight", "bishop", "rook", "queen", "king"}

Coords == 0..7

Squares == Coords \X Coords

NoPiece == [type |-> "none", color |-> "none", id |-> 0]

Opponent(color) == IF color = "white" THEN "black" ELSE "white"

Abs(x) == IF x < 0 THEN -x ELSE x

Sign(x) == IF x > 0 THEN 1 ELSE IF x < 0 THEN -1 ELSE 0

\* Row-major scan order of the nested for loops (row outer, col inner).
AllSquaresSeq == [i \in 1..64 |-> <<(i - 1) \div 8, (i - 1) % 8>>]

\* The object allocated for the starting square <<row, col>>.
NewPiece(type, color, row, col) == [type |-> type, color |-> color, id |-> row * 8 + col + 1]

BackRank == <<"rook", "knight", "bishop", "queen", "king", "bishop", "knight", "rook">>

\* The array is board[row][col] with row, col in 0..7; a TLA+ sequence starts at 1.
initializeBoard ==
    [r \in 1..8 |-> [c \in 1..8 |->
        CASE r - 1 = 1 -> NewPiece("pawn", "white", r - 1, c - 1)
          [] r - 1 = 6 -> NewPiece("pawn", "black", r - 1, c - 1)
          [] r - 1 = 0 -> NewPiece(BackRank[c], "white", r - 1, c - 1)
          [] r - 1 = 7 -> NewPiece(BackRank[c], "black", r - 1, c - 1)
          [] OTHER -> NoPiece]]

\* this.board[row][col] for a position on the board.
At(b, pos) == b[pos[1] + 1][pos[2] + 1]

isValidPosition(pos) == pos[1] >= 0 /\ pos[1] < 8 /\ pos[2] >= 0 /\ pos[2] < 8

getPiece(b, pos) == IF ~isValidPosition(pos) THEN NoPiece ELSE At(b, pos)

setPiece(b, pos, piece) ==
    IF ~isValidPosition(pos) THEN b ELSE [b EXCEPT ![pos[1] + 1][pos[2] + 1] = piece]

----------------------------------------------------------------------------
(* Movement rules of ClassicalBoard *)

\* isValidPieceMove with a rook rule that accepts every displacement.
isValidPieceMoveRookAnywhere(b, from, to, piece) ==
    LET dx == to[2] - from[2]
        dy == to[1] - from[1]
        absDx == Abs(dx)
        absDy == Abs(dy)
    IN  CASE piece.type = "pawn" ->
                LET direction == IF piece.color = "white" THEN 1 ELSE -1
                    startRow == IF piece.color = "white" THEN 1 ELSE 6
                IN  \/ dx = 0 /\ dy = direction /\ getPiece(b, to) = NoPiece
                    \/ /\ dx = 0 /\ dy = 2 * direction /\ from[1] = startRow
                       /\ getPiece(b, to) = NoPiece
                       /\ getPiece(b, <<from[1] + direction, from[2]>>) = NoPiece
                    \/ absDx = 1 /\ dy = direction /\ getPiece(b, to) # NoPiece
          [] piece.type = "knight" ->
                (absDx = 2 /\ absDy = 1) \/ (absDx = 1 /\ absDy = 2)
          [] piece.type = "bishop" -> absDx = absDy /\ absDx > 0
          [] piece.type = "rook" -> dx # 0 \/ dy # 0
          [] piece.type = "queen" ->
                (absDx = absDy /\ absDx > 0) \/ (dx = 0 /\ dy # 0) \/ (dx # 0 /\ dy = 0)
          [] piece.type = "king" ->
                \/ absDx <= 1 /\ absDy <= 1
                \/ absDy = 0 /\ absDx = 2      \* castling: no condition is checked
          [] OTHER -> FALSE

isValidPieceMove(b, from, to, piece) ==
    LET dx == to[2] - from[2]
        dy == to[1] - from[1]
        absDx == Abs(dx)
        absDy == Abs(dy)
    IN  CASE piece.type = "pawn" ->
                LET direction == IF piece.color = "white" THEN 1 ELSE -1
                    startRow == IF piece.color = "white" THEN 1 ELSE 6
                IN  \/ dx = 0 /\ dy = direction /\ getPiece(b, to) = NoPiece
                    \/ /\ dx = 0 /\ dy = 2 * direction /\ from[1] = startRow
                       /\ getPiece(b, to) = NoPiece
                       /\ getPiece(b, <<from[1] + direction, from[2]>>) = NoPiece
                    \/ absDx = 1 /\ dy = direction /\ getPiece(b, to) # NoPiece
          [] piece.type = "knight" ->
                (absDx = 2 /\ absDy = 1) \/ (absDx = 1 /\ absDy = 2)
          [] piece.type = "bishop" -> absDx = absDy /\ absDx > 0
          [] piece.type = "rook" -> (dx = 0 /\ dy # 0) \/ (dx # 0 /\ dy = 0)
          [] piece.type = "queen" ->
                (absDx = absDy /\ absDx > 0) \/ (dx = 0 /\ dy # 0) \/ (dx # 0 /\ dy = 0)
          [] piece.type = "king" ->
                \/ absDx <= 1 /\ absDy <= 1
                \/ absDy = 0 /\ absDx = 2      \* castling: no condition is checked
          [] OTHER -> FALSE

\* The while loop of isPathClear: walk from cur towards to, one (dy, dx) step at a time.
RECURSIVE PathWalk(_, _, _, _, _)
PathWalk(b, cur, to, dy, dx) ==
    IF cur = to THEN TRUE
    ELSE IF getPiece(b, cur) # NoPiece THEN FALSE
    ELSE PathWalk(b, <<cur[1] + dy, cur[2] + dx>>, to, dy, dx)

isPathClearBishopJumps(b, from, to, piece) ==
    IF piece.type = "knight" \/ piece.type = "bishop" THEN TRUE
    ELSE IF piece.type = "king" \/ piece.type = "pawn" THEN TRUE
    ELSE LET dx == Sign(to[2] - from[2])
             dy == Sign(to[1] - from[1])
         IN  PathWalk(b, <<from[1] + dy, from[2] + dx>>, to, dy, dx)

isPathClear(b, from, to, piece) ==
    IF piece.type = "knight" THEN TRUE
    ELSE IF piece.type = "king" \/ piece.type = "pawn" THEN TRUE
    ELSE LET dx == Sign(to[2] - from[2])
             dy == Sign(to[1] - from[1])
         IN  PathWalk(b, <<from[1] + dy, from[2] + dx>>, to, dy, dx)

isValidMove(b, from, to) ==
    LET piece == getPiece(b, from)
        target == getPiece(b, to)
    IN  /\ piece # NoPiece
        /\ ~(target # NoPiece /\ target.color = piece.color)
        /\ isValidPieceMove(b, from, to, piece)
        /\ isPathClear(b, from, to, piece)

\* Positions holding a king of the colour, in scan order; the loop takes the first.
KingSquares(b, color) ==
    SelectSeq(AllSquaresSeq, LAMBDA p : At(b, p).type = "king" /\ At(b, p).color = color)

\* isInCheck that also counts the candidate squares of the opposing records as
\* attackers.
isInCheckWithGhosts(b, color) ==
    LET kings == KingSquares(b, color)
        records == IF color = "white" THEN blackQuantumPieces ELSE whiteQuantumPieces
    IN  IF Len(kings) = 0 THEN FALSE
        ELSE LET kingPos == kings[1]
                 opponentColor == Opponent(color)
             IN  \/ \E p \in Squares :
                        /\ At(b, p).color = opponentColor
                        /\ isValidPieceMove(b, p, kingPos, At(b, p))
                        /\ isPathClear(b, p, kingPos, At(b, p))
                 \/ \E i \in 1..Len(records) : \E k \in 1..Len(records[i].positions) :
                        /\ At(b, records[i].positions[k]) = NoPiece
                        /\ isValidPieceMove(b, records[i].positions[k], kingPos, records[i].piece)
                        /\ isPathClear(b, records[i].positions[k], kingPos, records[i].piece)

isInCheck(b, color) ==
    LET kings == KingSquares(b, color)
    IN  IF Len(kings) = 0 THEN FALSE
        ELSE LET kingPos == kings[1]
                 opponentColor == Opponent(color)
             IN  \E p \in Squares :
                    /\ At(b, p).color = opponentColor
                    /\ isValidPieceMove(b, p, kingPos, At(b, p))
                    /\ isPathClear(b, p, kingPos, At(b, p))

\* getPieces(color): the [piece, position] pairs in scan order.
getPieces(b, color) ==
    LET at == SelectSeq(AllSquaresSeq, LAMBDA p : At(b, p).color = color)
    IN  [i \in 1..Len(at) |-> [piece |-> At(b, at[i]), position |-> at[i]]]

getValidMoves(b, from) ==
    IF getPiece(b, from) = NoPiece THEN <<>>
    ELSE SelectSeq(AllSquaresSeq, LAMBDA to : isValidMove(b, from, to))

\* The for loop of getQuietMoves over allMoves[i..]: every candidate is played on
\* the live board, tested and taken back.  The result is the board the loop leaves
\* and the quiet moves it collected.
RECURSIVE QuietLoop(_, _, _, _, _, _)
QuietLoop(b, from, opponentColor, allMoves, i, quietMoves) ==
    IF i > Len(allMoves) THEN [board |-> b, quietMoves |-> quietMoves]
    ELSE LET to == allMoves[i]
             piece == getPiece(b, from)
         IN  IF getPiece(b, to) # NoPiece \/ piece = NoPiece
             THEN QuietLoop(b, from, opponentColor, allMoves, i + 1, quietMoves)
             ELSE LET originalTarget == getPiece(b, to)
                      simulated == setPiece(setPiece(b, to, piece), from, NoPiece)
                      wouldCheck == isInCheck(simulated, opponentColor)
                      undone == setPiece(setPiece(simulated, from, piece), to, originalTarget)
                  IN  QuietLoop(undone, from, opponentColor, allMoves, i + 1,
                                IF wouldCheck THEN quietMoves ELSE Append(quietMoves, to))

\* getQuietMoves without its two undo lines: the first simulated move stays on the
\* board, so every later iteration finds no piece at `from` and skips.
getQuietMovesNoUndo(b, from, opponentColor) ==
    LET piece == getPiece(b, from)
        empty == SelectSeq(getValidMoves(b, from), LAMBDA to : getPiece(b, to) = NoPiece)
    IN  IF piece = NoPiece \/ empty = <<>>
        THEN [board |-> b, quietMoves |-> <<>>]
        ELSE LET simulated == setPiece(setPiece(b, empty[1], piece), from, NoPiece)
             IN  [board |-> simulated,
                  quietMoves |-> IF isInCheck(simulated, opponentColor) THEN <<>>
                                 ELSE <<empty[1]>>]

getQuietMoves(b, from, opponentColor) ==
    QuietLoop(b, from, opponentColor, getValidMoves(b, from), 1, <<>>)

\* makeMove that leaves the turn with the mover after a capture.
makeMoveKeepTurnOnCapture(b, turn, from, to) ==
    LET piece == getPiece(b, from)
        failed == [success |-> FALSE, wasCapture |-> FALSE, wasCheck |-> FALSE,
                   capturedPiece |-> NoPiece, board |-> b, currentTurn |-> turn]
    IN  IF piece = NoPiece THEN failed
        ELSE IF piece.color # turn THEN failed
        ELSE IF ~isValidMove(b, from, to) THEN failed
        ELSE LET targetPiece == getPiece(b, to)
                 moved == setPiece(setPiece(b, to, piece), from, NoPiece)
                 isCastle == piece.type = "king" /\ Abs(to[2] - from[2]) = 2
                 isKingside == to[2] > from[2]
                 rookFromCol == IF isKingside THEN 7 ELSE 0
                 rookToCol == IF isKingside THEN to[2] - 1 ELSE to[2] + 1
                 rook == getPiece(moved, <<from[1], rookFromCol>>)
                 castled == IF isCastle /\ rook # NoPiece
                            THEN setPiece(setPiece(moved, <<from[1], rookToCol>>, rook),
                                          <<from[1], rookFromCol>>, NoPiece)
                            ELSE moved
                 opponentColor == Opponent(turn)
             IN  [success |-> TRUE,
                  wasCapture |-> targetPiece # NoPiece,
                  wasCheck |-> isInCheck(castled, opponentColor),
                  capturedPiece |-> targetPiece,
                  board |-> castled,
                  currentTurn |-> IF targetPiece # NoPiece THEN turn ELSE opponentColor]

\* makeMove: [success, wasCapture, wasCheck, capturedPiece] and the board and turn it leaves.
makeMove(b, turn, from, to) ==
    LET piece == getPiece(b, from)
        failed == [success |-> FALSE, wasCapture |-> FALSE, wasCheck |-> FALSE,
                   capturedPiece |-> NoPiece, board |-> b, currentTurn |-> turn]
    IN  IF piece = NoPiece THEN failed
        ELSE IF piece.color # turn THEN failed
        ELSE IF ~isValidMove(b, from, to) THEN failed
        ELSE LET targetPiece == getPiece(b, to)
                 moved == setPiece(setPiece(b, to, piece), from, NoPiece)
                 isCastle == piece.type = "king" /\ Abs(to[2] - from[2]) = 2
                 isKingside == to[2] > from[2]
                 rookFromCol == IF isKingside THEN 7 ELSE 0
                 rookToCol == IF isKingside THEN to[2] - 1 ELSE to[2] + 1
                 rook == getPiece(moved, <<from[1], rookFromCol>>)
                 castled == IF isCastle /\ rook # NoPiece
                            THEN setPiece(setPiece(moved, <<from[1], rookToCol>>, rook),
                                          <<from[1], rookFromCol>>, NoPiece)
                            ELSE moved
                 opponentColor == Opponent(turn)
             IN  [success |-> TRUE,
                  wasCapture |-> targetPiece # NoPiece,
                  wasCheck |-> isInCheck(castled, opponentColor),
                  capturedPiece |-> targetPiece,
                  board |-> castled,
                  currentTurn |-> opponentColor]

----------------------------------------------------------------------------
(* QuantumStateManager *)

\* A Map key.  The code builds the strings `${row},${col}`, `${type}-${row},${col}`
\* and `${type}-superposition-${row},${col}`; the tuple keeps their parts, so two
\* keys are equal exactly when the strings are.
getPieceKey(pos) == <<"", "", pos[1], pos[2]>>

CollapsedKey(type, pos) == <<type, "-", pos[1], pos[2]>>

SuperpositionKey(type, pos) == <<type, "-superposition-", pos[1], pos[2]>>

\* A probability 1.0 / n, kept exact as <<numerator, denominator>>.
\* Every candidate taken for certain, whatever their number.
ProbabilityCertain(n) == <<1, 1>>

Probability(n) == <<1, n>>

QuantumPiece(key, piece, positions) ==
    [key |-> key, piece |-> piece, positions |-> positions,
     probability |-> Probability(Len(positions))]

InSeq(x, s) == \E i \in 1..Len(s) : s[i] = x

\* Map.delete(key): the entry goes, the order of the others stays.
MapDelete(m, key) == SelectSeq(m, LAMBDA e : e.key # key)

\* Map.set(key, value): an existing key keeps its place, a new key goes last.
MapSet(m, entry) ==
    IF \E i \in 1..Len(m) : m[i].key = entry.key
    THEN [i \in 1..Len(m) |-> IF m[i].key = entry.key THEN entry ELSE m[i]]
    ELSE Append(m, entry)

\* A loop that stops at the first entry passing its test: the least of the indices
\* of the passing entries, in iteration order; 0 if none passes.
FirstIndex(passing) ==
    IF passing = {} THEN 0 ELSE CHOOSE i \in passing : \A j \in passing : i <= j

\* initialize() filling both maps from the white pieces.
initializeWhiteTwice(b) ==
    LET RecordsOf(color) ==
            LET ps == getPieces(b, "white")
            IN  [i \in 1..Len(ps) |->
                    QuantumPiece(getPieceKey(ps[i].position), ps[i].piece, <<ps[i].position>>)]
    IN  [white |-> RecordsOf("white"), black |-> RecordsOf("black")]

\* initialize(): one collapsed record per piece, keyed by its square.
initialize(b) ==
    LET RecordsOf(color) ==
            LET ps == getPieces(b, color)
            IN  [i \in 1..Len(ps) |->
                    QuantumPiece(getPieceKey(ps[i].position), ps[i].piece, <<ps[i].position>>)]
    IN  [white |-> RecordsOf("white"), black |-> RecordsOf("black")]

Undefined == <<>>

\* updateAfterMove without the fallback for an empty list of ghost positions.
updateAfterMoveNoFallback(qs, from, to, movingPiece, wasCapture, wasCheck, capturedPosition, ghostPositions) ==
    LET opponentColor == Opponent(movingPiece.color)
        quantumPieces == qs[movingPiece.color]
        found == FirstIndex({i \in 1..Len(quantumPieces) :
                                /\ quantumPieces[i].piece.type = movingPiece.type
                                /\ quantumPieces[i].piece.color = movingPiece.color
                                /\ InSeq(from, quantumPieces[i].positions)})
        removed == IF found # 0 THEN MapDelete(quantumPieces, quantumPieces[found].key)
                   ELSE quantumPieces
        shouldCollapse == wasCapture \/ wasCheck \/ movingPiece.type = "pawn"
        newEntry == IF shouldCollapse
                    THEN QuantumPiece(CollapsedKey(movingPiece.type, to), movingPiece, <<to>>)
                    ELSE IF Len(ghostPositions) >= 0
                    THEN QuantumPiece(SuperpositionKey(movingPiece.type, to), movingPiece,
                                      ghostPositions)
                    ELSE QuantumPiece(CollapsedKey(movingPiece.type, to), movingPiece, <<to>>)
        own == MapSet(removed, newEntry)
        capturedPieces == qs[opponentColor]
        capturedFound == FirstIndex({i \in 1..Len(capturedPieces) :
                                        InSeq(capturedPosition, capturedPieces[i].positions)})
        others == IF wasCapture /\ capturedPosition # Undefined /\ capturedFound # 0
                  THEN MapDelete(capturedPieces, capturedPieces[capturedFound].key)
                  ELSE capturedPieces
    IN  [c \in Colors |-> IF c = movingPiece.color THEN own ELSE others]

\* updateAfterMove with a shouldCollapse that leaves the check out.
updateAfterMoveNoCheck(qs, from, to, movingPiece, wasCapture, wasCheck, capturedPosition, ghostPositions) ==
    LET opponentColor == Opponent(movingPiece.color)
        quantumPieces == qs[movingPiece.color]
        found == FirstIndex({i \in 1..Len(quantumPieces) :
                                /\ quantumPieces[i].piece.type = movingPiece.type
                                /\ quantumPieces[i].piece.color = movingPiece.color
                                /\ InSeq(from, quantumPieces[i].positions)})
        removed == IF found # 0 THEN MapDelete(quantumPieces, quantumPieces[found].key)
                   ELSE quantumPieces
        shouldCollapse == wasCapture \/ movingPiece.type = "pawn"
        newEntry == IF shouldCollapse
                    THEN QuantumPiece(CollapsedKey(movingPiece.type, to), movingPiece, <<to>>)
                    ELSE IF Len(ghostPositions) > 0
                    THEN QuantumPiece(SuperpositionKey(movingPiece.type, to), movingPiece,
                                      ghostPositions)
                    ELSE QuantumPiece(CollapsedKey(movingPiece.type, to), movingPiece, <<to>>)
        own == MapSet(removed, newEntry)
        capturedPieces == qs[opponentColor]
        capturedFound == FirstIndex({i \in 1..Len(capturedPieces) :
                                        InSeq(capturedPosition, capturedPieces[i].positions)})
        others == IF wasCapture /\ capturedPosition # Undefined /\ capturedFound # 0
                  THEN MapDelete(capturedPieces, capturedPieces[capturedFound].key)
                  ELSE capturedPieces
    IN  [c \in Colors |-> IF c = movingPiece.color THEN own ELSE others]

updateAfterMove(qs, from, to, movingPiece, wasCapture, wasCheck, capturedPosition, ghostPositions) ==
    LET opponentColor == Opponent(movingPiece.color)
        quantumPieces == qs[movingPiece.color]
        found == FirstIndex({i \in 1..Len(quantumPieces) :
                                /\ quantumPieces[i].piece.type = movingPiece.type
                                /\ quantumPieces[i].piece.color = movingPiece.color
                                /\ InSeq(from, quantumPieces[i].positions)})
        removed == IF found # 0 THEN MapDelete(quantumPieces, quantumPieces[found].key)
                   ELSE quantumPieces
        shouldCollapse == wasCapture \/ wasCheck \/ movingPiece.type = "pawn"
        newEntry == IF shouldCollapse
                    THEN QuantumPiece(CollapsedKey(movingPiece.type, to), movingPiece, <<to>>)
                    ELSE IF Len(ghostPositions) > 0
                    THEN QuantumPiece(SuperpositionKey(movingPiece.type, to), movingPiece,
                                      ghostPositions)
                    ELSE QuantumPiece(CollapsedKey(movingPiece.type, to), movingPiece, <<to>>)
        own == MapSet(removed, newEntry)
        capturedPieces == qs[opponentColor]
        capturedFound == FirstIndex({i \in 1..Len(capturedPieces) :
                                        InSeq(capturedPosition, capturedPieces[i].positions)})
        others == IF wasCapture /\ capturedPosition # Undefined /\ capturedFound # 0
                  THEN MapDelete(capturedPieces, capturedPieces[capturedFound].key)
                  ELSE capturedPieces
    IN  [c \in Colors |-> IF c = movingPiece.color THEN own ELSE others]

getOpponentQuantumState(qs, playerColor) == qs[Opponent(playerColor)]

hasOpponentGhost(qs, position, playerColor) ==
    \E i \in 1..Len(qs[Opponent(playerColor)]) :
        InSeq(position, qs[Opponent(playerColor)][i].positions)

\* getOwnGhostPiece: the first own record with several positions, one of them
\* `position`; NoEntry stands for null.
NoEntry == [key |-> <<>>, piece |-> NoPiece, positions |-> <<>>, probability |-> <<0, 1>>]

getOwnGhostPiece(qs, position, playerColor) ==
    LET ownPieces == qs[playerColor]
        i == FirstIndex({k \in 1..Len(ownPieces) :
                            /\ Len(ownPieces[k].positions) > 1
                            /\ InSeq(position, ownPieces[k].positions)})
    IN  IF i = 0 THEN NoEntry ELSE ownPieces[i]

\* collapsePiece(piece): the true position is that of the first piece of the same
\* type and colour that getPieces finds; every record of that type and colour goes.
collapsePiece(qs, b, piece) ==
    LET quantumPieces == qs[piece.color]
        ps == getPieces(b, piece.color)
        first == FirstIndex({i \in 1..Len(ps) :
                                ps[i].piece.type = piece.type /\ ps[i].piece.color = piece.color})
    IN  IF first = 0 THEN qs
        ELSE LET truePosition == ps[first].position
                 kept == SelectSeq(quantumPieces,
                                   LAMBDA qp : ~(qp.piece.type = piece.type /\ qp.piece.color = piece.color))
                 newMap == MapSet(kept, QuantumPiece(CollapsedKey(piece.type, truePosition),
                                                     piece, <<truePosition>>))
             IN  [qs EXCEPT ![piece.color] = newMap]

----------------------------------------------------------------------------
(* The websocket handler, case "move" *)

QuantumState == [white |-> whiteQuantumPieces, black |-> blackQuantumPieces]

NoMove ==
    [player |-> "none", from |-> <<>>, to |-> <<>>, movingPiece |-> NoPiece,
     wasCapture |-> FALSE, wasCheck |-> FALSE, capturedPiece |-> NoPiece,
     allowProbing |-> FALSE, isCastle |-> FALSE, ghostPositions |-> <<>>,
     ownGhostPiece |-> NoPiece, probedPiece |-> NoPiece]

\* Everything the handler computes for a request whose source square holds a piece;
\* quiet is the outcome of its call getQuietMoves(data.from, opponentColor), which
\* does not depend on data.to.
HandleMove(b, turn, qs, player, from, to, quiet) ==
    LET movingPiece == getPiece(b, from)
        playerColor == player
        opponentColor == Opponent(playerColor)
        ghostPositions == quiet.quietMoves
        allowProbing == hasOpponentGhost(qs, to, playerColor)
        isCastle == movingPiece.type = "king" /\ Abs(to[2] - from[2]) = 2
        ghostPositionsForQuantum == IF isCastle THEN <<>> ELSE ghostPositions
        \* after makeMove: the self-ghost collapse
        AfterMakeMove(moveResult) ==
            LET ownGhostPiece == getOwnGhostPiece(qs, to, playerColor)
                modifiedWasCapture == IF isCastle THEN TRUE ELSE moveResult.wasCapture
                modifiedWasCheck == moveResult.wasCheck
                \* after the self-ghost collapse (records qs1): the probe loop
                AfterSelfGhost(qs1) ==
                    LET opponentQuantumState == getOpponentQuantumState(qs1, playerColor)
                        \* after the probe loop stopped at entry `probed` (0: none)
                        AfterProbe(probed) ==
                            [success |-> TRUE,
                             board |-> moveResult.board,
                             currentTurn |-> moveResult.currentTurn,
                             quantum |->
                                 updateAfterMove(
                                     IF probed # 0
                                     THEN collapsePiece(qs1, moveResult.board,
                                                        opponentQuantumState[probed].piece)
                                     ELSE qs1,
                                     from, to, movingPiece, modifiedWasCapture, modifiedWasCheck,
                                     IF moveResult.wasCapture THEN to ELSE Undefined,
                                     ghostPositionsForQuantum),
                             locals |->
                                 [player |-> player, from |-> from, to |-> to,
                                  movingPiece |-> movingPiece,
                                  wasCapture |-> moveResult.wasCapture,
                                  wasCheck |-> moveResult.wasCheck,
                                  capturedPiece |-> moveResult.capturedPiece,
                                  allowProbing |-> allowProbing, isCastle |-> isCastle,
                                  ghostPositions |-> ghostPositions,
                                  ownGhostPiece |-> ownGhostPiece.piece,
                                  probedPiece |-> IF probed # 0
                                                  THEN opponentQuantumState[probed].piece
                                                  ELSE NoPiece]]
                    IN  AfterProbe(IF allowProbing /\ ~moveResult.wasCapture
                                   THEN FirstIndex({i \in 1..Len(opponentQuantumState) :
                                                       InSeq(to, opponentQuantumState[i].positions)})
                                   ELSE 0)
            IN  IF ~moveResult.success
                THEN [success |-> FALSE, board |-> moveResult.board,
                      currentTurn |-> moveResult.currentTurn, quantum |-> qs, locals |-> NoMove]
                ELSE AfterSelfGhost(IF ownGhostPiece # NoEntry
                                    THEN collapsePiece(qs, moveResult.board, ownGhostPiece.piece)
                                    ELSE qs)
    IN  AfterMakeMove(makeMove(quiet.board, turn, from, to))

\* Ids of the pieces that stand on another square in b2 than in b1.
Relocated(b1, b2) ==
    {At(b2, t).id : t \in {u \in Squares : At(b2, u) # NoPiece /\ At(b2, u) # At(b1, u)}}

\* getMyPieces reading the colour's own records (first candidate of each) instead
\* of the board.
getMyPiecesFromRecords(b, playerColor) ==
    LET own == IF playerColor = "white" THEN whiteQuantumPieces ELSE blackQuantumPieces
    IN  [i \in 1..Len(own) |-> [type |-> own[i].piece.type, position |-> own[i].positions[1]]]

\* getMyPieces(playerColor): type and position of the colour's pieces on the board.
getMyPieces(b, playerColor) ==
    LET ps == getPieces(b, playerColor)
    IN  [i \in 1..Len(ps) |-> [type |-> ps[i].piece.type, position |-> ps[i].position]]

\* sendGameState(ws, room): the game_state message for the socket of colour player.
sendGameState(player, b, turn, qs) ==
    LET opponentQuantum == getOpponentQuantumState(qs, player)
    IN  [to |-> player,
         type |-> "game_state",
         myPieces |-> getMyPieces(b, player),
         opponentQuantumStates |->
             [i \in 1..Len(opponentQuantum) |->
                 [piece |-> opponentQuantum[i].piece.type,
                  color |-> opponentQuantum[i].piece.color,
                  positions |-> opponentQuantum[i].positions,
                  probability |-> opponentQuantum[i].probability]],
         currentTurn |-> turn,
         isInCheck |-> isInCheck(b, player)]

\* The end of an accepted move with the game_state going to the mover's opponent
\* only.
sendGameStateToOpponentOnly(b, turn, qs) ==
    <<sendGameState(turn, b, turn, qs)>>

\* The end of an accepted move: room.white, then room.black, gets its game_state.
sendGameStateToBoth(b, turn, qs) ==
    <<sendGameState("white", b, turn, qs), sendGameState("black", b, turn, qs)>>

-----------------------------------------------------------------------------
(* Rooms, sockets and GameDatabase *)

Clients == {"a", "b", "c"}

\* Room codes in the order generateRoomCode produces them, taken as never repeating.
RoomCodes == 1..MaxRooms

\* The room whose board and quantum state the variables above hold; the boards of
\* the other rooms receive no move.
TrackedRoom == 1

\* An entry of the Map rooms.  status is "live" for a code that is in the Map,
\* "unused" before create_room has produced the code, "deleted" after rooms.delete.
\* gameId 0 stands for undefined, "none" for a null socket.
NoRoom(status) ==
    [status |-> status, white |-> "none", black |-> "none", gameId |-> 0, moveCount |-> 0]

\* rooms.get(code): true when a room comes back.
HasRoom(code) == code \in RoomCodes /\ rooms[code].status = "live"

NoData == [room |-> 0, color |-> "none"]

\* db.createGame: a new row of games; its id is the row number.
createGame(d, roomCode) ==
    [d EXCEPT !.games = Append(@, [room_code |-> roomCode, winner |-> "none", ended |-> FALSE,
                                   total_moves |-> 0, endGameCalls |-> 0])]

\* db.recordMove without the update of total_moves.
recordMoveOnly(d, gameId, moveNumber) ==
    [d EXCEPT !.moves = Append(@, [game_id |-> gameId, move_number |-> moveNumber])]

\* db.recordMove: a new row of moves, then total_moves of the game is set.
recordMove(d, gameId, moveNumber) ==
    [d EXCEPT !.moves = Append(@, [game_id |-> gameId, move_number |-> moveNumber]),
              !.games[gameId].total_moves = moveNumber]

\* db.endGame: ended_at and winner of the game are set (endGameCalls counts the calls).
endGame(d, gameId, winner) ==
    [d EXCEPT !.games[gameId].ended = TRUE,
              !.games[gameId].winner = winner,
              !.games[gameId].endGameCalls = @ + 1]

\* The move handler's database step: if (room.gameId) { room.moveCount++; db.recordMove }.
RecordAcceptedMove ==
    IF rooms[TrackedRoom].gameId # 0
    THEN /\ rooms' = [rooms EXCEPT ![TrackedRoom].moveCount = @ + 1]
         /\ db' = recordMove(db, rooms[TrackedRoom].gameId, rooms[TrackedRoom].moveCount + 1)
    ELSE UNCHANGED <<rooms, db>>

\* if (room.white) sendGameState(room.white, room); the same for room.black.
ToPresentPlayers(messages) ==
    SelectSeq(messages, LAMBDA m : rooms[TrackedRoom][m.to] # "none")

\* ws.send of a move_rejected message to the requesting socket.
MoveRejected(player, reason) ==
    [to |-> player, type |-> "move_rejected", reason |-> reason]

\* No piece at the source: move_rejected before the sender's colour or data.to is read.
MoveNoPiece(player, from) ==
    /\ getPiece(board, from) = NoPiece
    /\ reply' = "move_rejected: No piece at source position"
    /\ requester' = player
    /\ outbox' = <<MoveRejected(player, "No piece at source position")>>
    /\ UNCHANGED <<board, currentTurn, whiteQuantumPieces, blackQuantumPieces, last, movedIds, nAccepted>>
    /\ UNCHANGED roomVars

\* makeMove fails: move_rejected after getQuietMoves has run on the live board.
\* h is what HandleMove computed for the request.
MoveInvalid(player, h) ==
    /\ ~h.success
    /\ requester' = player
    /\ outbox' = <<MoveRejected(player, "Invalid move")>>
    /\ board' = h.board
    /\ currentTurn' = h.currentTurn
    /\ whiteQuantumPieces' = h.quantum.white
    /\ blackQuantumPieces' = h.quantum.black
    /\ reply' = "move_rejected: Invalid move"
    /\ UNCHANGED <<last, movedIds, nAccepted>>
    /\ UNCHANGED roomVars

\* makeMove succeeds: the quantum records are updated and game_state goes out.
MoveAccepted(h, maxPly) ==
    /\ nAccepted < maxPly
    /\ h.success
    /\ board' = h.board
    /\ currentTurn' = h.currentTurn
    /\ whiteQuantumPieces' = h.quantum.white
    /\ blackQuantumPieces' = h.quantum.black
    /\ last' = h.locals
    /\ movedIds' = movedIds \cup Relocated(board, h.board)
    /\ reply' = "game_state"
    /\ nAccepted' = nAccepted + 1
    /\ requester' = h.locals.player
    /\ RecordAcceptedMove
    /\ outbox' = ToPresentPlayers(sendGameStateToBoth(h.board, h.currentTurn, h.quantum))
    /\ UNCHANGED <<wsData, closed>>

\* A request whose source square holds a piece.
MovePiece(player, from, to, quiet, maxPly) ==
    /\ getPiece(board, from) # NoPiece
    /\ \E h \in {HandleMove(board, currentTurn, QuantumState, player, from, to, quiet)} :
           \/ MoveInvalid(player, h)
           \/ MoveAccepted(h, maxPly)

\* The room table, sockets and database once socket a has created the tracked
\* room and socket b has joined it.
StartedRooms ==
    /\ rooms = [code \in RoomCodes |->
                   IF code = TrackedRoom
                   THEN [status |-> "live", white |-> "a", black |-> "b", gameId |-> 1,
                         moveCount |-> 0]
                   ELSE NoRoom("unused")]
    /\ wsData = [c \in Clients |->
                    IF c = "a" THEN [room |-> TrackedRoom, color |-> "white"]
                    ELSE IF c = "b" THEN [room |-> TrackedRoom, color |-> "black"]
                    ELSE NoData]
    /\ db = createGame([games |-> <<>>, moves |-> <<>>], TrackedRoom)
    /\ closed = {}

\* A new game: create_room builds the board and initialize() the records, join_room
\* brings the second player.
Init ==
    /\ StartedRooms
    /\ board = initializeBoard
    /\ currentTurn = "white"
    /\ whiteQuantumPieces = initialize(initializeBoard).white
    /\ blackQuantumPieces = initialize(initializeBoard).black
    /\ reply = "none"
    /\ last = NoMove
    /\ movedIds = {}
    /\ nAccepted = 0
    /\ requester = "none"
    /\ outbox = <<>>

\* Move requests <<from, to>> drawn from `requests`.  With anySender either player
\* sends any of them; without it a player only names squares that hold its own
\* pieces (in or out of turn).  The handler calls getQuietMoves before it reads data.to.
NextOn(requests, anySender, maxPly) ==
    \/ \E player \in Colors, from \in {r[1] : r \in requests} : MoveNoPiece(player, from)
    \/ \E player \in Colors, from \in {r[1] : r \in requests} :
            /\ anySender \/ getPiece(board, from).color = player
            /\ LET quiet == getQuietMoves(board, from, Opponent(player))
               IN  \E to \in {r[2] : r \in {q \in requests : q[1] = from}} :
                       MovePiece(player, from, to, quiet, maxPly)

\* Squares written as in the server's notation helper: file a-h is col 0-7, rank 1-8 is row 0-7.
Sq(file, rank) == <<rank - 1, file - 1>>

\* Every request between ten squares of the king's side: e1 g1 h1 h2 h3 f3 g5 f4
\* and f7 f5.
KingsideSquares ==
    {Sq(5, 1), Sq(7, 1), Sq(8, 1), Sq(8, 2), Sq(8, 3), Sq(6, 3), Sq(7, 5), Sq(6, 4),
     Sq(6, 7), Sq(6, 5)}

KingsideRequests == KingsideSquares \X KingsideSquares

Next == NextOn(KingsideRequests, FALSE, MaxPly)

Spec == Init /\ [][Next]_vars

\* The same requests, each sent by either player.
NextAnySender == NextOn(KingsideRequests, TRUE, MaxPly)

SpecAnySender == Init /\ [][NextAnySender]_vars

\* Two white knights that come to share candidate squares: e2-e4, Ng1-f3/h3, Nb1-c3/a3,
\* Nc3-e2 and back, the black knight g8-h6 and back, and some requests that fail.
KnightsRequests ==
    {<<Sq(5, 2), Sq(5, 4)>>, <<Sq(7, 1), Sq(6, 3)>>, <<Sq(7, 1), Sq(8, 3)>>,
     <<Sq(2, 1), Sq(3, 3)>>, <<Sq(2, 1), Sq(1, 3)>>, <<Sq(3, 3), Sq(5, 2)>>,
     <<Sq(5, 2), Sq(7, 3)>>, <<Sq(6, 3), Sq(7, 1)>>, <<Sq(3, 3), Sq(2, 1)>>,
     <<Sq(7, 8), Sq(8, 6)>>, <<Sq(8, 6), Sq(7, 8)>>,
     <<Sq(5, 2), Sq(5, 5)>>, <<Sq(2, 1), Sq(2, 3)>>, <<Sq(7, 3), Sq(5, 2)>>}

NextKnights == NextOn(KnightsRequests, FALSE, MaxPlyKnights)

SpecKnights == Init /\ [][NextKnights]_vars

\* Castling under attack: f2-f4/f3, Ng1-h3/f3, Ke1-g1, e7-e6/e5, Qd8-h4/g5/f6, and
\* some requests that fail.
CastleRequests ==
    {<<Sq(6, 2), Sq(6, 4)>>, <<Sq(6, 2), Sq(6, 3)>>, <<Sq(7, 1), Sq(8, 3)>>,
     <<Sq(7, 1), Sq(6, 3)>>, <<Sq(5, 1), Sq(7, 1)>>, <<Sq(5, 1), Sq(6, 2)>>,
     <<Sq(5, 7), Sq(5, 6)>>, <<Sq(5, 7), Sq(5, 5)>>, <<Sq(4, 8), Sq(8, 4)>>,
     <<Sq(4, 8), Sq(7, 5)>>, <<Sq(4, 8), Sq(6, 6)>>,
     <<Sq(4, 8), Sq(4, 5)>>, <<Sq(5, 1), Sq(5, 3)>>, <<Sq(8, 4), Sq(4, 8)>>}

NextCastle == NextOn(CastleRequests, FALSE, MaxPlyCastle)

SpecCastle == Init /\ [][NextCastle]_vars

\* A pawn next to a knight's ghost: e2-e4-e5, Ng8-h6/f6 and back, a7-a6, the diagonal
\* e5-f6 onto the knight or onto its ghost, d7-d5 and e4xd5, Ng1-f3, Nb8-c6, and
\* some requests that fail.
ProbeRequests ==
    {<<Sq(5, 2), Sq(5, 4)>>, <<Sq(5, 4), Sq(5, 5)>>, <<Sq(5, 5), Sq(6, 6)>>,
     <<Sq(5, 5), Sq(5, 6)>>, <<Sq(7, 8), Sq(8, 6)>>, <<Sq(7, 8), Sq(6, 6)>>,
     <<Sq(1, 7), Sq(1, 6)>>, <<Sq(8, 6), Sq(7, 8)>>, <<Sq(6, 6), Sq(7, 8)>>,
     <<Sq(5, 4), Sq(6, 5)>>, <<Sq(5, 5), Sq(4, 6)>>, <<Sq(1, 6), Sq(1, 7)>>,
     <<Sq(4, 7), Sq(4, 5)>>, <<Sq(5, 4), Sq(4, 5)>>, <<Sq(7, 1), Sq(6, 3)>>,
     <<Sq(2, 8), Sq(3, 6)>>}

NextProbe == NextOn(ProbeRequests, FALSE, MaxPlyProbe)

SpecProbe == Init /\ [][NextProbe]_vars

\* A capture on f1: e2-e4, Ng1-f3/h3, Ke1-g1, b7-b6, Bc8-a6/b7, Ba6xf1, Bf1-c4 and
\* Ba6xc4, and some requests that fail.
CaptureRequests ==
    {<<Sq(5, 2), Sq(5, 4)>>, <<Sq(7, 1), Sq(6, 3)>>, <<Sq(7, 1), Sq(8, 3)>>,
     <<Sq(5, 1), Sq(7, 1)>>, <<Sq(2, 7), Sq(2, 6)>>, <<Sq(3, 8), Sq(1, 6)>>,
     <<Sq(3, 8), Sq(2, 7)>>, <<Sq(1, 6), Sq(6, 1)>>, <<Sq(6, 1), Sq(3, 4)>>,
     <<Sq(1, 6), Sq(3, 4)>>, <<Sq(1, 6), Sq(5, 2)>>, <<Sq(6, 1), Sq(6, 3)>>}

NextCapture == NextOn(CaptureRequests, FALSE, MaxPlyCapture)

SpecCapture == Init /\ [][NextCapture]_vars

\* Every collapse trigger: pawn moves e2-e4, f7-f6, g7-g6, the check Qd1-h5+, the
\* capture with check Qh5xg6+, the pawn capture h7xg6, the castle Ke1-g1 after
\* Ng1-h3, the quiet moves Ng1-f3, Qd1-g4, Ng8-h6, and some requests that fail.
TriggerRequests ==
    {<<Sq(5, 2), Sq(5, 4)>>, <<Sq(6, 7), Sq(6, 6)>>, <<Sq(7, 7), Sq(7, 6)>>,
     <<Sq(4, 1), Sq(8, 5)>>, <<Sq(8, 5), Sq(7, 6)>>, <<Sq(8, 7), Sq(7, 6)>>,
     <<Sq(7, 1), Sq(8, 3)>>, <<Sq(5, 1), Sq(7, 1)>>, <<Sq(7, 1), Sq(6, 3)>>,
     <<Sq(4, 1), Sq(7, 4)>>, <<Sq(7, 8), Sq(8, 6)>>, <<Sq(8, 5), Sq(8, 7)>>,
     <<Sq(7, 4), Sq(4, 1)>>}

NextTriggers == NextOn(TriggerRequests, FALSE, MaxPlyTriggers)

SpecTriggers == Init /\ [][NextTriggers]_vars

\* A pawn stepping onto a square that is a candidate of two of its own pieces and
\* being captured there: g2-g3, Ng1-f3 (or Ng1-h3), Bf1-g2, h2-h3, and for Black
\* d7-d6, a7-a6, a6-a5, Bc8xh3 (or Bc8-g4), with the recapture Bg2xh3.
PawnRequests ==
    {<<Sq(7, 2), Sq(7, 3)>>, <<Sq(7, 1), Sq(6, 3)>>, <<Sq(7, 1), Sq(8, 3)>>,
     <<Sq(6, 1), Sq(7, 2)>>, <<Sq(8, 2), Sq(8, 3)>>, <<Sq(4, 7), Sq(4, 6)>>,
     <<Sq(1, 7), Sq(1, 6)>>, <<Sq(1, 6), Sq(1, 5)>>, <<Sq(3, 8), Sq(8, 3)>>,
     <<Sq(3, 8), Sq(7, 4)>>, <<Sq(7, 2), Sq(8, 3)>>, <<Sq(2, 1), Sq(1, 3)>>}

NextPawn == NextOn(PawnRequests, FALSE, MaxPlyPawn)

SpecPawn == Init /\ [][NextPawn]_vars

\* The f-file opened in front of a castle: f2-f4, e7-e5, f4xe5, f7-f6, Ng1-h3,
\* f6xe5, Ke8-f7, a2-a3, Ke1-g1, and Ke1-f2.
QuietRequests ==
    {<<Sq(6, 2), Sq(6, 4)>>, <<Sq(5, 7), Sq(5, 5)>>, <<Sq(6, 4), Sq(5, 5)>>,
     <<Sq(6, 7), Sq(6, 6)>>, <<Sq(7, 1), Sq(8, 3)>>, <<Sq(6, 6), Sq(5, 5)>>,
     <<Sq(5, 8), Sq(6, 7)>>, <<Sq(1, 2), Sq(1, 3)>>, <<Sq(5, 1), Sq(7, 1)>>,
     <<Sq(5, 1), Sq(6, 2)>>}

NextQuiet == NextOn(QuietRequests, FALSE, MaxPlyQuiet)

SpecQuiet == Init /\ [][NextQuiet]_vars

\* The two kings walking towards each other: e2-e4, Ke1-e2-e3-f4-g5 (or Ke3-d4),
\* e7-e6, Ke8-e7-d6-e5, with a2-a3 and a7-a6 to pass.
KingsRequests ==
    {<<Sq(5, 2), Sq(5, 4)>>, <<Sq(5, 1), Sq(5, 2)>>, <<Sq(5, 2), Sq(5, 3)>>,
     <<Sq(5, 3), Sq(6, 4)>>, <<Sq(6, 4), Sq(7, 5)>>, <<Sq(5, 3), Sq(4, 4)>>,
     <<Sq(5, 7), Sq(5, 6)>>, <<Sq(5, 8), Sq(5, 7)>>, <<Sq(5, 7), Sq(4, 6)>>,
     <<Sq(4, 6), Sq(5, 5)>>, <<Sq(1, 2), Sq(1, 3)>>, <<Sq(1, 7), Sq(1, 6)>>}

NextKings == NextOn(KingsRequests, FALSE, MaxPlyKings)

SpecKings == Init /\ [][NextKings]_vars

\* A king in check whose side then moves another piece, each request sent by
\* either player: e2-e4, f7-f6 or g7-g6, Qd1-h5, then Nb8-c6/a6, Ng8-h6, g7-g6,
\* with a2-a3 to pass.
SelfCheckRequests ==
    {<<Sq(5, 2), Sq(5, 4)>>, <<Sq(6, 7), Sq(6, 6)>>, <<Sq(4, 1), Sq(8, 5)>>,
     <<Sq(2, 8), Sq(3, 6)>>, <<Sq(2, 8), Sq(1, 6)>>, <<Sq(7, 8), Sq(8, 6)>>,
     <<Sq(7, 7), Sq(7, 6)>>, <<Sq(4, 1), Sq(6, 3)>>, <<Sq(2, 8), Sq(4, 7)>>,
     <<Sq(1, 2), Sq(1, 3)>>}

NextSelfCheck == NextOn(SelfCheckRequests, TRUE, MaxPlySelfCheck)

SpecSelfCheck == Init /\ [][NextSelfCheck]_vars

\* Requests with coordinates beyond the edge of the board: the knight g1 to row -1,
\* the rook h1 to column 8, the knight g8 to row 8, a source on row -1, among
\* e2-e4, Ng1-f3, e7-e5, a7-a6 and Ng8-f6.
EdgeRequests ==
    {<<Sq(5, 2), Sq(5, 4)>>, <<Sq(7, 1), Sq(6, 3)>>, <<Sq(7, 1), <<0 - 1, 4>>>>,
     <<Sq(8, 1), <<0, 8>>>>, <<Sq(8, 1), <<0 - 1, 7>>>>, <<<<0 - 1, 4>>, Sq(5, 2)>>,
     <<Sq(5, 7), Sq(5, 5)>>, <<Sq(1, 7), Sq(1, 6)>>, <<Sq(7, 8), Sq(6, 6)>>,
     <<Sq(7, 8), <<8, 5>>>>, <<Sq(6, 3), <<1, 8>>>>}

NextEdge == NextOn(EdgeRequests, FALSE, MaxPlyEdge)

SpecEdge == Init /\ [][NextEdge]_vars

-----------------------------------------------------------------------------
(* The websocket handlers create_room, join_room, move and close on a fresh server *)

\* The server after start-up: no room, no socket in a room, empty tables.  The
\* board variables already hold what create_room will build for the tracked room.
InitServer ==
    /\ board = initializeBoard
    /\ currentTurn = "white"
    /\ whiteQuantumPieces = initialize(initializeBoard).white
    /\ blackQuantumPieces = initialize(initializeBoard).black
    /\ reply = "none"
    /\ last = NoMove
    /\ movedIds = {}
    /\ nAccepted = 0
    /\ requester = "none"
    /\ outbox = <<>>
    /\ rooms = [code \in RoomCodes |-> NoRoom("unused")]
    /\ wsData = [c \in Clients |-> NoData]
    /\ db = [games |-> <<>>, moves |-> <<>>]
    /\ closed = {}

chessVars == <<board, currentTurn, whiteQuantumPieces, blackQuantumPieces, last, movedIds,
               nAccepted>>

UnusedCodes == {code \in RoomCodes : rooms[code].status = "unused"}

\* generateRoomCode(): the next code not produced before.
generateRoomCode == CHOOSE code \in UnusedCodes : \A other \in UnusedCodes : code <= other

\* case "create_room": a new room with the sender as white; ws.data is overwritten.
CreateRoom(c) ==
    /\ c \notin closed
    /\ UnusedCodes # {}
    /\ LET roomCode == generateRoomCode
       IN  /\ rooms' = [rooms EXCEPT ![roomCode] =
                           [status |-> "live", white |-> c, black |-> "none", gameId |-> 0,
                            moveCount |-> 0]]
           /\ wsData' = [wsData EXCEPT ![c] = [room |-> roomCode, color |-> "white"]]
           /\ outbox' = <<[to |-> c, type |-> "room_created", roomCode |-> roomCode]>>
           /\ IF roomCode = TrackedRoom
              THEN /\ board' = initializeBoard
                   /\ currentTurn' = "white"
                   /\ whiteQuantumPieces' = initialize(initializeBoard).white
                   /\ blackQuantumPieces' = initialize(initializeBoard).black
              ELSE UNCHANGED <<board, currentTurn, whiteQuantumPieces, blackQuantumPieces>>
    /\ reply' = "room_created"
    /\ requester' = c
    /\ UNCHANGED <<last, movedIds, nAccepted, db, closed>>

\* case "join_room", rooms.get(data.roomCode) is undefined.
JoinNotFound(c, roomCode) ==
    /\ ~HasRoom(roomCode)
    /\ reply' = "error: Room not found"
    /\ outbox' = <<[to |-> c, type |-> "error", message |-> "Room not found"]>>
    /\ UNCHANGED roomVars

\* case "join_room" without the test of room.black.
JoinAlways(c, roomCode) ==
    /\ HasRoom(roomCode)
    /\ rooms' = [rooms EXCEPT ![roomCode].black = c,
                               ![roomCode].gameId = Len(db.games) + 1]
    /\ wsData' = [wsData EXCEPT ![c] = [room |-> roomCode, color |-> "black"]]
    /\ db' = createGame(db, roomCode)
    /\ reply' = "room_joined"
    /\ outbox' = <<[to |-> c, type |-> "room_joined"]>>
    /\ UNCHANGED closed

\* case "join_room", room.black is set.
JoinFull(c, roomCode) ==
    /\ HasRoom(roomCode)
    /\ rooms[roomCode].black # "none"
    /\ reply' = "error: Room is full"
    /\ outbox' = <<[to |-> c, type |-> "error", message |-> "Room is full"]>>
    /\ UNCHANGED roomVars

\* case "join_room", the room exists and has no black player: the sender becomes
\* black, the game row is created, both players get the game state.
JoinAccepted(c, roomCode) ==
    /\ HasRoom(roomCode)
    /\ rooms[roomCode].black = "none"
    /\ rooms' = [rooms EXCEPT ![roomCode].black = c,
                               ![roomCode].gameId = Len(db.games) + 1]
    /\ wsData' = [wsData EXCEPT ![c] = [room |-> roomCode, color |-> "black"]]
    /\ db' = createGame(db, roomCode)
    /\ reply' = "room_joined"
    /\ outbox' = <<[to |-> c, type |-> "room_joined"],
                   [to |-> rooms[roomCode].white, type |-> "opponent_joined"],
                   [to |-> rooms[roomCode].white, type |-> "game_state"],
                   [to |-> c, type |-> "game_state"]>>
    /\ UNCHANGED closed

\* case "join_room" sent by socket c with data.roomCode = roomCode.
JoinRoom(c, roomCode) ==
    /\ c \notin closed
    /\ requester' = c
    /\ UNCHANGED chessVars
    /\ \/ JoinNotFound(c, roomCode)
       \/ JoinFull(c, roomCode)
       \/ JoinAccepted(c, roomCode)

\* case "move" from a socket without ws.data.room, or whose room is not in the
\* Map: the handler returns at once.
MoveIgnored(c) ==
    /\ c \notin closed
    /\ wsData[c].room = 0 \/ ~HasRoom(wsData[c].room)
    /\ reply' = "none"
    /\ requester' = c
    /\ outbox' = <<>>
    /\ UNCHANGED chessVars
    /\ UNCHANGED roomVars

\* The move requests of the scenario: e2-e4, e7-e5, the invalid e2-e5 and e4-e5.
RoomRequests ==
    {<<Sq(5, 2), Sq(5, 4)>>, <<Sq(5, 7), Sq(5, 5)>>, <<Sq(5, 2), Sq(5, 5)>>,
     <<Sq(5, 4), Sq(5, 5)>>}

\* case "move" from socket c, whose room is the tracked one: the handler runs with
\* ws.data.color as the player.
ClientMove(c) ==
    /\ c \notin closed
    /\ wsData[c].room = TrackedRoom
    /\ HasRoom(TrackedRoom)
    /\ \/ \E from \in {r[1] : r \in RoomRequests} : MoveNoPiece(wsData[c].color, from)
       \/ \E r \in RoomRequests :
               MovePiece(wsData[c].color, r[1], r[2],
                         getQuietMoves(board, r[1], Opponent(wsData[c].color)), MaxPlyRoom)

\* websocket.close for socket c.
Close(c) ==
    /\ c \notin closed
    /\ closed' = closed \cup {c}
    /\ requester' = c
    /\ reply' = "none"
    /\ UNCHANGED chessVars
    /\ UNCHANGED wsData
    /\ IF wsData[c].room = 0 \/ ~HasRoom(wsData[c].room)
       THEN /\ outbox' = <<>>
            /\ UNCHANGED <<rooms, db>>
       ELSE LET room == rooms[wsData[c].room]
                opponent == IF wsData[c].color = "white" THEN room.black ELSE room.white
                winner == IF wsData[c].color = "white" THEN "black" ELSE "white"
            IN  /\ db' = IF room.gameId # 0 THEN endGame(db, room.gameId, winner) ELSE db
                /\ outbox' = IF opponent # "none"
                             THEN <<[to |-> opponent, type |-> "opponent_disconnected"]>>
                             ELSE <<>>
                /\ rooms' = [rooms EXCEPT ![wsData[c].room] = NoRoom("deleted")]

NextRoom ==
    \/ \E c \in Clients : CreateRoom(c)
    \/ \E c \in Clients, roomCode \in RoomCodes : JoinRoom(c, roomCode)
    \/ \E c \in Clients : MoveIgnored(c)
    \/ \E c \in Clients : ClientMove(c)
    \/ \E c \in Clients : Close(c)

SpecRoom == InitServer /\ [][NextRoom]_vars

----------------------------------------------------------------------------
(* Vocabulary of the properties *)

QuantumOf(color) == IF color = "white" THEN whiteQuantumPieces ELSE blackQuantumPieces

\* The same map after the step.
QuantumNext(color) == IF color = "white" THEN whiteQuantumPieces' ELSE blackQuantumPieces'

Rejected(r) ==
    r \in {"move_rejected: No piece at source position", "move_rejected: Invalid move"}

\* The step is an accepted move; last' holds its locals.
AcceptedStep == nAccepted' = nAccepted + 1

SquaresOf(b, id) == {p \in Squares : At(b, p).id = id}

PiecesOn(b, color, type) == {p \in Squares : At(b, p).color = color /\ At(b, p).type = type}

RecordsOfType(m, type) == {i \in 1..Len(m) : m[i].piece.type = type}

RecordsOf(m, id) == {i \in 1..Len(m) : m[i].piece.id = id}

\* The map m holds a record of the piece and every record of it is the single
\* candidate sq with probability 1.
CollapsedAt(m, id, sq) ==
    /\ RecordsOf(m, id) # {}
    /\ \A i \in RecordsOf(m, id) : m[i].positions = <<sq>> /\ m[i].probability = <<1, 1>>

\* The map m holds exactly one record of the piece, collapsed on the square where
\* the piece stands on board b.
CollapsedToTrueSquare(m, b, id) ==
    /\ Cardinality(RecordsOf(m, id)) = 1
    /\ \E sq \in SquaresOf(b, id) : CollapsedAt(m, id, sq)

\* Some record still in superposition exists: the state is past the opening collapse.
SomeSuperposition ==
    \E c \in Colors : \E i \in 1..Len(QuantumOf(c)) : Len(QuantumOf(c)[i].positions) > 1

----------------------------------------------------------------------------
(* C1: a rejected move request leaves the classical board, the current turn and
   both colours' superposition records exactly as they were before the request. *)
C1_RejectionLeavesStateUntouched ==
    [][Rejected(reply') =>
          /\ board' = board
          /\ currentTurn' = currentTurn
          /\ whiteQuantumPieces' = whiteQuantumPieces
          /\ blackQuantumPieces' = blackQuantumPieces]_vars

\* A request was rejected by makeMove in a game that has records in superposition.
C1_Witness == reply = "move_rejected: Invalid move" /\ nAccepted >= 3 /\ SomeSuperposition

(* C2: a move request of the player of colour c is accepted only when the piece at
   `from` has colour c and c is the side to move.  (After an accepted move the
   turn has flipped, so c was to move exactly when the opponent is to move now.) *)
C2_OnlyOwnPieceInTurn ==
    last.player # "none" =>
        /\ last.movingPiece.color = last.player
        /\ currentTurn = Opponent(last.player)

(* C3: identity invariant: for each colour and piece type the number of records of
   that type equals the number of pieces of that type and colour on the board, and
   no piece stands on two squares. *)
C3_IdentityInvariant ==
    /\ \A c \in Colors, t \in PieceTypes :
          Cardinality(RecordsOfType(QuantumOf(c), t)) = Cardinality(PiecesOn(board, c, t))
    /\ \A p \in Squares : At(board, p) # NoPiece => SquaresOf(board, At(board, p).id) = {p}

\* The pieces an accepted move is allowed to touch the records of: the mover, the
\* captured piece and the pieces whose ghosts the handler resolved.
ResolvedIds(l) ==
    {l.movingPiece.id, l.capturedPiece.id, l.ownGhostPiece.id, l.probedPiece.id}

(* C4: no cross-id interference: a step that collapses a record (capture, probe
   resolution, self-ghost resolution) leaves the record of every piece that is not
   among the pieces resolved in that step as it was. *)
C4_NoCrossIdInterference ==
    [][(/\ AcceptedStep
        /\ (last'.wasCapture \/ last'.ownGhostPiece # NoPiece \/ last'.probedPiece # NoPiece))
       => \A c \in Colors : \A i \in 1..Len(QuantumOf(c)) :
             QuantumOf(c)[i].piece.id \notin ResolvedIds(last')
             => \E j \in 1..Len(QuantumNext(c)) :
                   /\ QuantumNext(c)[j].piece = QuantumOf(c)[i].piece
                   /\ QuantumNext(c)[j].positions = QuantumOf(c)[i].positions
                   /\ QuantumNext(c)[j].probability = QuantumOf(c)[i].probability]_vars

(* C5: key-collision resistance: when a piece makes a quiet move, it has one record
   of its own afterwards, and every other piece of its colour and type that has
   moved before keeps one record of its own, with the candidates it had or
   collapsed on the square where that piece stands. *)
C5_KeyCollisionResistance ==
    [][(AcceptedStep /\ ~last'.wasCapture /\ ~last'.wasCheck /\ ~last'.isCastle)
       => LET mover == last'.movingPiece
              own == mover.color
          IN  /\ Cardinality(RecordsOf(QuantumNext(own), mover.id)) = 1
              /\ \A i \in 1..Len(QuantumOf(own)) :
                    LET other == QuantumOf(own)[i]
                    IN  (/\ other.piece.type = mover.type
                         /\ other.piece.id # mover.id
                         /\ other.piece.id \in movedIds)
                        => /\ Cardinality(RecordsOf(QuantumNext(own), other.piece.id)) = 1
                           /\ \/ \E j \in RecordsOf(QuantumNext(own), other.piece.id) :
                                    /\ QuantumNext(own)[j].positions = other.positions
                                    /\ QuantumNext(own)[j].probability = other.probability
                              \/ CollapsedToTrueSquare(QuantumNext(own), board', other.piece.id)]_vars

\* The rook's destination of the castle l: next to the king, on the side it came from.
RookDestination(l) ==
    <<l.from[1], IF l.to[2] > l.from[2] THEN l.to[2] - 1 ELSE l.to[2] + 1>>

\* The corner the rook of the castle l comes from.
RookCorner(l) == <<l.from[1], IF l.to[2] > l.from[2] THEN 7 ELSE 0>>

(* C6: castling atomicity: after an accepted castle the mover's colour holds a
   collapsed record of the king at its destination and a collapsed record of the
   rook at its destination, and no record of either lists any other square. *)
C6_CastlingAtomicity ==
    last.isCastle =>
        LET m == QuantumOf(last.movingPiece.color)
            rook == getPiece(board, RookDestination(last))
        IN  /\ CollapsedAt(m, last.movingPiece.id, last.to)
            /\ rook.type = "rook" /\ rook.color = last.movingPiece.color
            /\ CollapsedAt(m, rook.id, RookDestination(last))

\* The squares strictly between two squares of one row.
BetweenInRow(a, b) ==
    {p \in Squares : p[1] = a[1] /\ ((a[2] < p[2] /\ p[2] < b[2]) \/ (b[2] < p[2] /\ p[2] < a[2]))}

(* C7: a two-file king move is accepted only if neither the king nor the rook on
   the corresponding corner has moved earlier and every square strictly between
   them is empty. *)
C7_CastleOnlyUnmovedAndClear ==
    [][(AcceptedStep /\ last'.isCastle)
       => LET rook == getPiece(board, RookCorner(last'))
          IN  /\ last'.movingPiece.id \notin movedIds
              /\ rook.type = "rook" /\ rook.color = last'.movingPiece.color
              /\ rook.id \notin movedIds
              /\ \A p \in BetweenInRow(last'.from, RookCorner(last')) :
                    getPiece(board, p) = NoPiece]_vars

\* The king standing on `from` would be attacked on sq: isInCheck with the king
\* placed there.
KingAttackedOn(b, from, sq) ==
    LET king == getPiece(b, from)
    IN  isInCheck(IF sq = from THEN b ELSE setPiece(setPiece(b, sq, king), from, NoPiece),
                  king.color)

(* C8: a castle is accepted only when the king's current square, the square it
   transits and its landing square are not attacked by an opposing piece. *)
C8_NoCastleThroughAttack ==
    [][(AcceptedStep /\ last'.isCastle)
       => \A sq \in BetweenInRow(last'.from, last'.to) \cup {last'.from, last'.to} :
             ~KingAttackedOn(board, last'.from, sq)]_vars

(* C9: probe resolution: when an accepted move lands on an empty square that is a
   candidate of opposing records, every opposing record that listed the square is
   collapsed to the board square of its own piece. *)
C9_ProbeCollapsesToTrueSquare ==
    [][(AcceptedStep /\ ~last'.wasCapture)
       => LET opp == Opponent(last'.movingPiece.color)
          IN  \A i \in 1..Len(QuantumOf(opp)) :
                 InSeq(last'.to, QuantumOf(opp)[i].positions)
                 => CollapsedToTrueSquare(QuantumNext(opp), board', QuantumOf(opp)[i].piece.id)]_vars

(* C10: self-ghost resolution: when an accepted move lands on a candidate square of
   records of the mover's own colour, every such record other than the mover's own
   is collapsed to the board square of its piece, and the mover's own record is
   not taken for a self-ghost. *)
C10_SelfGhostCollapsesAll ==
    [][AcceptedStep
       => LET own == last'.movingPiece.color
          IN  /\ last'.ownGhostPiece.id # last'.movingPiece.id
              /\ \A i \in 1..Len(QuantumOf(own)) :
                    (/\ InSeq(last'.to, QuantumOf(own)[i].positions)
                     /\ QuantumOf(own)[i].piece.id # last'.movingPiece.id)
                    => CollapsedToTrueSquare(QuantumNext(own), board', QuantumOf(own)[i].piece.id)]_vars

\* The squares a pawn of the colour captures onto from p: one step diagonally forward.
PawnDiagonals(color, p) ==
    {t \in Squares : Abs(t[2] - p[2]) = 1
                     /\ t[1] - p[1] = (IF color = "white" THEN 1 ELSE -1)}

(* C11: probing eligibility: when the side to move has a pawn one diagonal step from
   an empty square that is a candidate of an opposing record, that player's request
   to move the pawn there is accepted. *)
C11_PawnProbeAccepted ==
    \A p \in Squares :
        (getPiece(board, p).type = "pawn" /\ getPiece(board, p).color = currentTurn)
        => \A t \in PawnDiagonals(currentTurn, p) :
              (getPiece(board, t) = NoPiece /\ hasOpponentGhost(QuantumState, t, currentTurn))
              => HandleMove(board, currentTurn, QuantumState, currentTurn, p, t,
                            getQuietMoves(board, p, Opponent(currentTurn))).success

(* C12: capture resolution: after an accepted move onto a real opposing piece, that
   piece is off the board, the opponent's set holds no record of it, every record
   of another opposing piece is there as it was, and the opponent's set is one
   record shorter. *)
C12_CaptureRemovesExactlyTheCaptured ==
    [][(AcceptedStep /\ last'.wasCapture)
       => LET captured == last'.capturedPiece
              opp == captured.color
          IN  /\ SquaresOf(board', captured.id) = {}
              /\ RecordsOf(QuantumNext(opp), captured.id) = {}
              /\ Len(QuantumNext(opp)) = Len(QuantumOf(opp)) - 1
              /\ \A i \in 1..Len(QuantumOf(opp)) :
                    QuantumOf(opp)[i].piece.id # captured.id
                    => \E j \in 1..Len(QuantumNext(opp)) :
                          QuantumNext(opp)[j] = QuantumOf(opp)[i]]_vars

\* The quiet destinations of the piece on `from`: the empty squares it may move to
\* without giving check to the other colour.
QuietDestinations(b, from) ==
    LET piece == getPiece(b, from)
    IN  {t \in Squares :
            /\ getPiece(b, t) = NoPiece
            /\ isValidMove(b, from, t)
            /\ ~isInCheck(setPiece(setPiece(b, t, piece), from, NoPiece), Opponent(piece.color))}

\* The candidate squares of a record, as a set.
Candidates(qp) == {qp.positions[k] : k \in 1..Len(qp.positions)}

(* C13: expand: after an accepted move of a non-pawn piece that is no capture, no
   check and no castle, the mover's record lists exactly the quiet destinations of
   the origin square on the board before the move, each once, with probability
   1/n each; the first move Nb1-a3 gives {a3, c3} with probability 1/2. *)
C13_ExpandToQuietDestinations ==
    [][(/\ AcceptedStep
        /\ last'.movingPiece.type # "pawn"
        /\ ~last'.wasCapture /\ ~last'.wasCheck /\ ~last'.isCastle)
       => LET m == QuantumNext(last'.movingPiece.color)
              mine == RecordsOf(m, last'.movingPiece.id)
              quiet == QuietDestinations(board, last'.from)
          IN  /\ mine # {}
              /\ \A i \in mine :
                    /\ Candidates(m[i]) = quiet
                    /\ Len(m[i].positions) = Cardinality(quiet)
                    /\ m[i].probability = <<1, Cardinality(quiet)>>
              /\ (nAccepted = 0 /\ last'.from = Sq(2, 1) /\ last'.to = Sq(1, 3))
                 => \A i \in mine : /\ Candidates(m[i]) = {Sq(1, 3), Sq(3, 3)}
                                    /\ m[i].probability = <<1, 2>>]_vars

\* An accepted move that must collapse its mover: a capture, a check, a pawn move or
\* a castle.
CollapseTrigger(l) ==
    l.wasCapture \/ l.wasCheck \/ l.movingPiece.type = "pawn" \/ l.isCastle

(* C14: collapse triggers: after an accepted move that captures, gives check, is
   made by a pawn or is a castle, the mover's colour holds a record of the mover
   whose only candidate is the destination square, with probability 1. *)
C14_TriggersCollapseTheMover ==
    [][(AcceptedStep /\ CollapseTrigger(last'))
       => \E i \in RecordsOf(QuantumNext(last'.movingPiece.color), last'.movingPiece.id) :
             /\ QuantumNext(last'.movingPiece.color)[i].positions = <<last'.to>>
             /\ QuantumNext(last'.movingPiece.color)[i].probability = <<1, 1>>]_vars

\* A queen has captured with check, after an earlier check, a castle or a pawn
\* capture having happened or not: the state right after a capture that gives check.
C14_Witness ==
    /\ last.wasCapture /\ last.wasCheck
    /\ last.movingPiece.type = "queen"
    /\ reply = "game_state"

\* The record has some candidate, no candidate twice, and the probability
\* 1 / (number of candidates).
WellFormedRecord(qp) ==
    /\ Len(qp.positions) >= 1
    /\ \A j, k \in 1..Len(qp.positions) : j # k => qp.positions[j] # qp.positions[k]
    /\ qp.probability = <<1, Len(qp.positions)>>

(* C15: probability conservation: in every reachable state every superposition
   record has a non-empty list of distinct candidate squares and a per-candidate
   probability of 1 divided by the number of candidates, so they sum to 1. *)
C15_ProbabilityConservation ==
    \A c \in Colors : \A i \in 1..Len(QuantumOf(c)) : WellFormedRecord(QuantumOf(c)[i])

\* Some record is spread over at least three candidate squares after an accepted
\* non-collapsing move.
C15_Witness ==
    /\ reply = "game_state"
    /\ \E i \in 1..Len(QuantumOf(last.movingPiece.color)) :
           /\ QuantumOf(last.movingPiece.color)[i].piece.id = last.movingPiece.id
           /\ Len(QuantumOf(last.movingPiece.color)[i].positions) >= 3

(* C16: pawns never enter superposition: in every reachable state each pawn record
   has exactly one candidate square with probability 1, and that candidate is the
   square where the pawn actually stands on the board. *)
C16_PawnsAlwaysCollapsedOnTheirSquare ==
    \A c \in Colors : \A i \in 1..Len(QuantumOf(c)) :
        QuantumOf(c)[i].piece.type = "pawn"
        => /\ Len(QuantumOf(c)[i].positions) = 1
           /\ QuantumOf(c)[i].probability = <<1, 1>>
           /\ SquaresOf(board, QuantumOf(c)[i].piece.id) = {QuantumOf(c)[i].positions[1]}

\* A piece of the colour standing on board b attacks the square sq.
RealAttack(b, color, sq) ==
    \E p \in Squares :
        /\ At(b, p).color = color
        /\ isValidPieceMove(b, p, sq, At(b, p))
        /\ isPathClear(b, p, sq, At(b, p))

\* A record of the map m would attack sq from a candidate square on which its
\* piece does not stand.
GhostAttack(b, m, sq) ==
    \E i \in 1..Len(m) : \E k \in 1..Len(m[i].positions) :
        /\ At(b, m[i].positions[k]) = NoPiece
        /\ isValidPieceMove(b, m[i].positions[k], sq, m[i].piece)
        /\ isPathClear(b, m[i].positions[k], sq, m[i].piece)

(* C17: check purity: the check an accepted move reports depends on the classical
   board alone: it is reported exactly when a piece standing on the board attacks
   the opposing king, so a king reachable only from a candidate square on which
   no piece stands is not in check, whatever the superposition records say. *)
C17_CheckReadsTheBoardOnly ==
    [][AcceptedStep
       => LET mover == last'.movingPiece.color
              kings == KingSquares(board', Opponent(mover))
          IN  Len(kings) > 0
              => /\ last'.wasCheck = RealAttack(board', mover, kings[1])
                 /\ (GhostAttack(board', QuantumOf(mover), kings[1])
                        /\ ~RealAttack(board', mover, kings[1]))
                    => ~last'.wasCheck]_vars

\* After an accepted move a candidate square of the mover's colour bears on the
\* opposing king, no piece on the board does, and no check was reported.
C17_Witness ==
    /\ reply = "game_state"
    /\ ~last.wasCheck
    /\ LET mover == last.movingPiece.color
           kings == KingSquares(board, Opponent(mover))
       IN  /\ Len(kings) > 0
           /\ GhostAttack(board, QuantumOf(mover), kings[1])
           /\ ~RealAttack(board, mover, kings[1])

(* C18: turn alternation: the game starts with white to move, the turn flips
   exactly once on every accepted move and never on a rejected one, so the
   accepted moves are made alternately by white and black pieces. *)
C18_TurnAlternation ==
    /\ currentTurn = "white"
    /\ [][/\ AcceptedStep => /\ last'.movingPiece.color = currentTurn
                             /\ currentTurn' = Opponent(currentTurn)
                             /\ (nAccepted > 0 => last'.movingPiece.color # last.movingPiece.color)
          /\ ~AcceptedStep => currentTurn' = currentTurn]_vars

\* A request was rejected after three accepted moves, with black still to move.
C18_Witness ==
    /\ nAccepted = 3
    /\ Rejected(reply)
    /\ currentTurn = "black"
    /\ last.movingPiece.color = "white"

\* The piece type the chess starting position puts on a file of the back rank.
StartingBackRank(file) ==
    CASE file \in {1, 8} -> "rook"
      [] file \in {2, 7} -> "knight"
      [] file \in {3, 6} -> "bishop"
      [] file = 4 -> "queen"
      [] file = 5 -> "king"

\* Board b is the chess starting position: 32 pieces, ranks 1 and 2 white, ranks 7
\* and 8 black, pawns on ranks 2 and 7.
StandardStart(b) ==
    /\ Cardinality({p \in Squares : At(b, p) # NoPiece}) = 32
    /\ \A file \in 1..8 :
          /\ At(b, Sq(file, 1)).type = StartingBackRank(file) /\ At(b, Sq(file, 1)).color = "white"
          /\ At(b, Sq(file, 2)).type = "pawn" /\ At(b, Sq(file, 2)).color = "white"
          /\ At(b, Sq(file, 7)).type = "pawn" /\ At(b, Sq(file, 7)).color = "black"
          /\ At(b, Sq(file, 8)).type = StartingBackRank(file) /\ At(b, Sq(file, 8)).color = "black"

\* The map m holds 16 records, each collapsed on the square of a distinct piece of
\* the colour on board b.
SixteenCollapsed(m, b, color) ==
    /\ Len(m) = 16
    /\ \A i \in 1..16 :
          /\ Len(m[i].positions) = 1
          /\ m[i].probability = <<1, 1>>
          /\ m[i].piece.color = color
          /\ At(b, m[i].positions[1]) = m[i].piece
    /\ \A i, j \in 1..16 : i # j => m[i].positions[1] # m[j].positions[1]

(* C19: initialization: a new game has the standard 32-piece starting board, white
   to move, and for each colour exactly 16 records, each collapsed (one candidate,
   probability 1) at the starting square of a distinct piece of that colour. *)
C19_NewGame ==
    reply = "none"
    => /\ StandardStart(board)
       /\ currentTurn = "white"
       /\ \A c \in Colors : SixteenCollapsed(QuantumOf(c), board, c)

\* The room has just been created: no request has been answered yet.
C19_Witness ==
    /\ reply = "none"
    /\ nAccepted = 0
    /\ last = NoMove

\* The message msg is a full game_state for colour c of the board b, the turn and
\* the records qs: c's own pieces where they stand, every opposing record with its
\* candidates and probability, and the side to move.
FullProjection(msg, c, b, turn, qs) ==
    /\ msg.type = "game_state"
    /\ msg.to = c
    /\ msg.currentTurn = turn
    /\ Len(msg.myPieces) = Cardinality({p \in Squares : At(b, p).color = c})
    /\ {<<msg.myPieces[i].type, msg.myPieces[i].position>> : i \in 1..Len(msg.myPieces)}
          = {<<At(b, p).type, p>> : p \in {q \in Squares : At(b, q).color = c}}
    /\ Len(msg.opponentQuantumStates) = Len(qs[Opponent(c)])
    /\ \A i \in 1..Len(msg.opponentQuantumStates) :
          /\ msg.opponentQuantumStates[i].piece = qs[Opponent(c)][i].piece.type
          /\ msg.opponentQuantumStates[i].positions = qs[Opponent(c)][i].positions
          /\ msg.opponentQuantumStates[i].probability = qs[Opponent(c)][i].probability

(* C20: after every accepted move the server sends a full game_state projection to
   both connected players, each reflecting the post-move board, turn and
   superposition records; a rejected move produces only a move_rejected reply to
   the requester and no game_state to anyone. *)
C20_GameStateToBothOnAcceptOnly ==
    [][/\ AcceptedStep
          => \A c \in Colors :
                \E k \in 1..Len(outbox') :
                    FullProjection(outbox'[k], c, board', currentTurn',
                                   [white |-> whiteQuantumPieces', black |-> blackQuantumPieces'])
       /\ ~AcceptedStep
          => /\ Len(outbox') = 1
             /\ outbox'[1].type = "move_rejected"
             /\ outbox'[1].to = requester']_vars

\* Black's accepted move has just gone out to both players, with a white record in
\* superposition in what black is shown.
C20_Witness ==
    /\ reply = "game_state"
    /\ requester = "black"
    /\ Len(outbox) = 2
    /\ \E k \in 1..2 :
          /\ outbox[k].to = "black"
          /\ \E i \in 1..Len(outbox[k].opponentQuantumStates) :
                Len(outbox[k].opponentQuantumStates[i].positions) > 1

\* The (type, square) pairs of the pieces of colour c standing on board b.
OnBoard(b, c) == {<<At(b, p).type, p>> : p \in {q \in Squares : At(b, q).color = c}}

\* The (type, square) pairs that the records of the map m name as candidates.
InOwnRecords(m) ==
    UNION {{<<m[i].piece.type, m[i].positions[k]>> : k \in 1..Len(m[i].positions)} :
              i \in 1..Len(m)}

(* C21: a player's own pieces are projected classically: in every reachable state
   the own-piece list sent to a player of colour c is exactly the (type, square)
   of the pieces of colour c on the classical board, whatever either
   superposition set holds. *)
C21_OwnPiecesProjectedClassically ==
    \A k \in 1..Len(outbox) :
        outbox[k].type = "game_state"
        => /\ Len(outbox[k].myPieces) = Cardinality(OnBoard(board, outbox[k].to))
           /\ {<<outbox[k].myPieces[i].type, outbox[k].myPieces[i].position>> :
                   i \in 1..Len(outbox[k].myPieces)} = OnBoard(board, outbox[k].to)

\* A game_state went to a player whose own records name other squares than the
\* board does: a candidate square without the piece, or a piece without a record.
C21_Witness ==
    \E k \in 1..Len(outbox) :
        /\ outbox[k].type = "game_state"
        /\ InOwnRecords(QuantumOf(outbox[k].to)) # OnBoard(board, outbox[k].to)
        /\ OnBoard(board, outbox[k].to) \ InOwnRecords(QuantumOf(outbox[k].to)) # {}

\* Integer coordinates a request may carry: the board and a margin around it.
RequestCoords == (0 - MaxOffBoard)..(7 + MaxOffBoard)

\* The while loop of isPathClear counted: from cur it reaches `to` within `fuel`
\* iterations of currentRow += dy, currentCol += dx (occupied squares, which end
\* the loop sooner, left aside).
RECURSIVE WalkStops(_, _, _, _, _)
WalkStops(cur, to, dy, dx, fuel) ==
    IF cur = to THEN TRUE
    ELSE IF fuel = 0 THEN FALSE
    ELSE WalkStops(<<cur[1] + dy, cur[2] + dx>>, to, dy, dx, fuel - 1)

(* C22: every move request with integer coordinates ends in acceptance or
   rejection: whenever the path walk is entered for a bishop, rook or queen (own
   piece not on the destination, movement rule satisfied), it reaches the
   destination within as many steps as the board and its margin are wide; and
   every handled request was answered by game_state or move_rejected. *)
C22_RequestsTerminate ==
    /\ \A from \in Squares : \A row \in RequestCoords : \A col \in RequestCoords :
          (/\ getPiece(board, from).type \in {"bishop", "rook", "queen"}
           /\ getPiece(board, <<row, col>>).color # getPiece(board, from).color
           /\ isValidPieceMove(board, from, <<row, col>>, getPiece(board, from)))
          => WalkStops(<<from[1] + Sign(row - from[1]), from[2] + Sign(col - from[2])>>,
                       <<row, col>>, Sign(row - from[1]), Sign(col - from[2]),
                       8 + 2 * MaxOffBoard)
    /\ requester # "none"
          => /\ Len(outbox) >= 1
             /\ \A k \in 1..Len(outbox) : outbox[k].type \in {"game_state", "move_rejected"}

\* A queen has just been moved four files across the board: the walk ran over
\* three squares before the move was accepted.
C22_Witness ==
    /\ reply = "game_state"
    /\ last.movingPiece.type = "queen"
    /\ Abs(last.to[2] - last.from[2]) = 4

----------------------------------------------------------------------------
(* The client's hint validator: Board.isValidMove of chess.zig behind the WASM
   export isValidMove, on the board the client's WASM module holds. *)

\* chess.zig isPathClear: the same walk as the server's, for every piece type.
wasmIsPathClear(b, from, to) ==
    PathWalk(b, <<from[1] + Sign(to[1] - from[1]), from[2] + Sign(to[2] - from[2])>>, to,
             Sign(to[1] - from[1]), Sign(to[2] - from[2]))

wasmIsValidPawnMove(b, from, to, color) ==
    LET direction == IF color = "white" THEN 1 ELSE -1
        start_row == IF color = "white" THEN 1 ELSE 6
        row_diff == to[1] - from[1]
        col_diff == to[2] - from[2]
    IN  IF col_diff = 0 /\ row_diff = direction THEN getPiece(b, to) = NoPiece
        ELSE IF col_diff = 0 /\ from[1] = start_row /\ row_diff = direction * 2
        THEN getPiece(b, to) = NoPiece /\ getPiece(b, <<from[1] + direction, from[2]>>) = NoPiece
        ELSE IF Abs(col_diff) = 1 /\ row_diff = direction THEN getPiece(b, to) # NoPiece
        ELSE FALSE

wasmIsValidKnightMove(from, to) ==
    \/ Abs(to[1] - from[1]) = 2 /\ Abs(to[2] - from[2]) = 1
    \/ Abs(to[1] - from[1]) = 1 /\ Abs(to[2] - from[2]) = 2

wasmIsValidBishopMove(b, from, to) ==
    IF Abs(to[1] - from[1]) # Abs(to[2] - from[2]) THEN FALSE ELSE wasmIsPathClear(b, from, to)

wasmIsValidRookMove(b, from, to) ==
    IF from[1] # to[1] /\ from[2] # to[2] THEN FALSE ELSE wasmIsPathClear(b, from, to)

wasmIsValidQueenMove(b, from, to) ==
    wasmIsValidRookMove(b, from, to) \/ wasmIsValidBishopMove(b, from, to)

\* The castle needs the own rook on its corner and empty squares between king and
\* rook.
wasmIsValidKingMove(b, from, to) ==
    LET row_diff == Abs(to[1] - from[1])
        col_diff == Abs(to[2] - from[2])
        is_kingside == to[2] > from[2]
        rook_col == IF is_kingside THEN 7 ELSE 0
        rook == getPiece(b, <<from[1], rook_col>>)
        start_col == IF is_kingside THEN from[2] + 1 ELSE rook_col + 1
        end_col == IF is_kingside THEN rook_col ELSE from[2]
    IN  IF row_diff <= 1 /\ col_diff <= 1 THEN TRUE
        ELSE IF row_diff = 0 /\ col_diff = 2
        THEN /\ rook # NoPiece
             /\ rook.type = "rook" /\ rook.color = getPiece(b, from).color
             /\ \A col \in start_col..(end_col - 1) : getPiece(b, <<from[1], col>>) = NoPiece
        ELSE FALSE

wasmIsValidMove(b, from, to, color) ==
    LET piece == getPiece(b, from)
    IN  IF piece = NoPiece THEN FALSE
        ELSE IF piece.color # color THEN FALSE
        ELSE IF getPiece(b, to) # NoPiece /\ getPiece(b, to).color = color THEN FALSE
        ELSE CASE piece.type = "pawn" -> wasmIsValidPawnMove(b, from, to, piece.color)
               [] piece.type = "knight" -> wasmIsValidKnightMove(from, to)
               [] piece.type = "bishop" -> wasmIsValidBishopMove(b, from, to)
               [] piece.type = "rook" -> wasmIsValidRookMove(b, from, to)
               [] piece.type = "queen" -> wasmIsValidQueenMove(b, from, to)
               [] piece.type = "king" -> wasmIsValidKingMove(b, from, to)

\* The board of the client's WASM module: initGame() sets up the starting position
\* and the client never calls the module's makeMove afterwards.
WasmTrueBoard == initializeBoard

\* updateBoard's highlighting: wasm.isValidMove(selected, target, myColorIndex).
HintValid(from, to, myColor) == wasmIsValidMove(WasmTrueBoard, from, to, myColor)

(* C23: hint/engine agreement: in every reachable position, for every origin and
   destination, the client's hint validator marks a move of the player to move
   valid exactly when the server's makeMove would accept it on the server's
   current board. *)
C23_HintAgreesWithServer ==
    \A from \in Squares : \A to \in Squares :
        HintValid(from, to, currentTurn) = makeMove(board, currentTurn, from, to).success


\* The board after the move from -> to has been played by makeMove for the side
\* that owns the piece (with the rook relocation of a two-file king move).
Played(b, from, to) == makeMove(b, getPiece(b, from).color, from, to).board

\* The squares of a sequence of positions.
Range(seq) == {seq[k] : k \in 1..Len(seq)}

(* C24: quiet destinations: for every board and origin square,
   getQuietMoves(origin, opponentColour) returns exactly the classically legal
   destinations from origin that are empty and that would not leave
   opponentColour in check if played; it never contains the origin square or an
   occupied square. *)
C24_QuietDestinationsExact ==
    \A origin \in Squares : \A opponentColor \in Colors :
        LET quiet == getQuietMoves(board, origin, opponentColor).quietMoves
        IN  /\ Range(quiet) = {to \in Squares :
                                  /\ getPiece(board, to) = NoPiece
                                  /\ isValidMove(board, origin, to)
                                  /\ ~isInCheck(Played(board, origin, to), opponentColor)}
            /\ origin \notin Range(quiet)
            /\ \A k \in 1..Len(quiet) : getPiece(board, quiet[k]) = NoPiece

(* C27: computing quiet destinations has no observable effect on the live board:
   after getQuietMoves returns, every square of the board is exactly as before
   the call, for every origin square (empty ones and opposing pieces included),
   and a request that only got as far as getQuietMoves leaves the turn alone. *)
C27_QuietMovesLeaveTheBoard ==
    /\ \A origin \in Squares : \A opponentColor \in Colors :
          getQuietMoves(board, origin, opponentColor).board = board
    /\ (reply = "move_rejected: Invalid move" /\ nAccepted = 0)
          => board = initializeBoard /\ currentTurn = "white"

\* The handler has just run getQuietMoves for a piece with several quiet
\* destinations, each of them played and taken back on the live board.
C27_Witness ==
    /\ reply = "game_state"
    /\ Len(last.ghostPositions) >= 4
    /\ getQuietMoves(board, last.to, Opponent(last.player)).quietMoves # <<>>

\* Every square strictly between p and k, which lie on one row, column or
\* diagonal, is empty on board b.
ClearLine(b, p, k) ==
    \A n \in 1..7 :
        n < (IF Abs(k[1] - p[1]) > Abs(k[2] - p[2]) THEN Abs(k[1] - p[1]) ELSE Abs(k[2] - p[2]))
        => getPiece(b, <<p[1] + n * Sign(k[1] - p[1]), p[2] + n * Sign(k[2] - p[2])>>) = NoPiece

\* The piece on p bears on the square k by the movement pattern of chess: a pawn
\* by its diagonal capture step, a knight by the L-shape, a slider along a clear
\* line, a king on the eight adjacent squares.
Reaches(b, p, k) ==
    LET piece == At(b, p)
        dRow == k[1] - p[1]
        dCol == k[2] - p[2]
        diagonal == Abs(dRow) = Abs(dCol) /\ dRow # 0
        straight == (dRow = 0 /\ dCol # 0) \/ (dRow # 0 /\ dCol = 0)
    IN  CASE piece.type = "pawn" ->
                Abs(dCol) = 1 /\ dRow = (IF piece.color = "white" THEN 1 ELSE -1)
          [] piece.type = "knight" -> {Abs(dRow), Abs(dCol)} = {1, 2}
          [] piece.type = "bishop" -> diagonal /\ ClearLine(b, p, k)
          [] piece.type = "rook" -> straight /\ ClearLine(b, p, k)
          [] piece.type = "queen" -> (diagonal \/ straight) /\ ClearLine(b, p, k)
          [] piece.type = "king" -> Abs(dRow) <= 1 /\ Abs(dCol) <= 1 /\ p # k
          [] OTHER -> FALSE

(* C25: isInCheck(colour) returns true exactly when some opposing piece's
   classical movement pattern, with a clear path, reaches that colour's king
   square (pawns by the diagonal capture step, knights by the L-shape, sliders
   along clear lines, an opposing king only on the eight adjacent squares). *)
C25_CheckIsClassicalAttack ==
    \A c \in Colors :
        Len(KingSquares(board, c)) > 0
        => isInCheck(board, c)
              = \E p \in Squares : /\ At(board, p).color = Opponent(c)
                                    /\ Reaches(board, p, KingSquares(board, c)[1])

\* The records of the map m that belong to other pieces than id.
RecordsOfOthers(m, id) == {m[i] : i \in {j \in 1..Len(m) : m[j].piece.id # id}}

(* C26: frame of a quiet move: an accepted move that is not a capture, not a probe
   and does not land on a candidate square of any record of its own colour
   changes no record of the opposing colour and no record of the mover's colour
   other than the record of the piece that moved. *)
C26_QuietMoveFrame ==
    [][(/\ AcceptedStep
        /\ ~last'.wasCapture
        /\ ~last'.allowProbing
        /\ \A i \in 1..Len(QuantumOf(last'.movingPiece.color)) :
              ~InSeq(last'.to, QuantumOf(last'.movingPiece.color)[i].positions))
       => /\ QuantumNext(Opponent(last'.movingPiece.color))
                = QuantumOf(Opponent(last'.movingPiece.color))
          /\ RecordsOfOthers(QuantumNext(last'.movingPiece.color), last'.movingPiece.id)
                = RecordsOfOthers(QuantumOf(last'.movingPiece.color), last'.movingPiece.id)]_vars

\* Some piece of the other colour reaches the king of colour c on board b.
Attacked(b, c) ==
    /\ Len(KingSquares(b, c)) > 0
    /\ \E p \in Squares : /\ At(b, p).color = Opponent(c)
                          /\ Reaches(b, p, KingSquares(b, c)[1])

(* C28: outcome classification: for every accepted move, wasCapture is true
   exactly when the destination held a real piece before the move, and wasCheck
   is true exactly when the opponent's king is in check on the board after the
   whole commit, the rook relocation of a castle included. *)
C28_OutcomeClassification ==
    [][AcceptedStep
       => /\ last'.wasCapture = (At(board, last'.to) # NoPiece)
          /\ last'.wasCheck = Attacked(board', Opponent(last'.movingPiece.color))]_vars

Sliders == {"bishop", "rook", "queen"}

\* The squares strictly between p and k on their common row, column or diagonal.
Between(p, k) ==
    {q \in Squares : \E n \in 1..7 :
        /\ n < (IF Abs(k[1] - p[1]) > Abs(k[2] - p[2]) THEN Abs(k[1] - p[1]) ELSE Abs(k[2] - p[2]))
        /\ q = <<p[1] + n * Sign(k[1] - p[1]), p[2] + n * Sign(k[2] - p[2])>>}

LShape(p, k) == {Abs(k[1] - p[1]), Abs(k[2] - p[2])} = {1, 2}

(* C29: path clearance: a bishop, rook or queen move is valid, and is accepted,
   only if every square strictly between origin and destination is empty on the
   classical board, while a knight's L-shaped move to a square not held by an own
   piece is valid whatever stands on the squares around it. *)
C29_PathClearance ==
    /\ [](\A from \in Squares : \A to \in Squares :
            /\ (At(board, from).type \in Sliders /\ isValidMove(board, from, to))
                  => \A q \in Between(from, to) : At(board, q) = NoPiece
            /\ (/\ At(board, from).type = "knight"
                /\ LShape(from, to)
                /\ At(board, to).color # At(board, from).color)
                  => isValidMove(board, from, to))
    /\ [][(AcceptedStep /\ last'.movingPiece.type \in Sliders)
            => \A q \in Between(last'.from, last'.to) : At(board, q) = NoPiece]_vars

\* A slider was just moved across at least one square, while some slider has a
\* move of its pattern that another piece blocks and a knight can jump from
\* between its neighbours.
C29_Witness ==
    /\ reply = "game_state"
    /\ last.movingPiece.type \in Sliders
    /\ Between(last.from, last.to) # {}
    /\ \E from \in Squares : \E to \in Squares :
          /\ At(board, from).type \in Sliders
          /\ isValidPieceMove(board, from, to, At(board, from))
          /\ At(board, to).color # At(board, from).color
          /\ \E q \in Between(from, to) : At(board, q) # NoPiece
          /\ ~isValidMove(board, from, to)
    /\ \E from \in Squares : \E to \in Squares :
          /\ At(board, from).type = "knight"
          /\ LShape(from, to)
          /\ isValidMove(board, from, to)
          /\ \E q \in Squares : /\ Abs(q[1] - from[1]) <= 1 /\ Abs(q[2] - from[2]) <= 1
                                 /\ Abs(q[1] - to[1]) <= 1 /\ Abs(q[2] - to[2]) <= 1
                                 /\ At(board, q) # NoPiece

\* The accepted move whose locals are l reaches the expand branch of
\* updateAfterMove with an empty list of ghost positions.
EmptyExpand(l) ==
    /\ ~l.wasCapture
    /\ ~l.wasCheck
    /\ l.movingPiece.type # "pawn"
    /\ ~l.isCastle
    /\ l.ghostPositions = <<>>

(* C30: expand fallback: when a non-collapsing accepted move has an empty set of
   pre-computed quiet destinations, the mover's record becomes a single candidate
   at the actual destination with probability 1; no record ever has zero
   candidates. *)
C30_ExpandFallback ==
    /\ [](\A c \in Colors : \A i \in 1..Len(QuantumOf(c)) : Len(QuantumOf(c)[i].positions) > 0)
    /\ [][(AcceptedStep /\ EmptyExpand(last'))
            => /\ Cardinality(RecordsOf(QuantumNext(last'.movingPiece.color),
                                        last'.movingPiece.id)) = 1
               /\ CollapsedAt(QuantumNext(last'.movingPiece.color),
                              last'.movingPiece.id, last'.to)]_vars

\* A knight has just moved without capture or check while none of its moves was
\* quiet for the sender's opponent.
C30_Witness ==
    /\ reply = "game_state"
    /\ EmptyExpand(last)
    /\ CollapsedAt(QuantumOf(last.movingPiece.color), last.movingPiece.id, last.to)

\* Some record of the piece's colour and type lists the square p among its candidates.
Listed(p) ==
    \E i \in 1..Len(QuantumOf(At(board, p).color)) :
        /\ QuantumOf(At(board, p).color)[i].piece.type = At(board, p).type
        /\ QuantumOf(At(board, p).color)[i].piece.color = At(board, p).color
        /\ InSeq(p, QuantumOf(At(board, p).color)[i].positions)

(* C31: classical/quantum consistency: in every reachable state, for every piece
   on the classical board there is a record of that piece's colour and type whose
   candidate squares include the piece's actual square, the rook after a castle
   included. *)
C31_EveryPieceListedOnItsSquare ==
    \A p \in Squares : At(board, p) # NoPiece => Listed(p)

\* The number of pieces of the colour on board b.
PieceCount(b, color) == Cardinality({p \in Squares : At(b, p).color = color})

(* C32: pieces leave the classical board only by capture: every accepted move
   leaves the number of pieces of the mover's colour unchanged and lowers the
   number of opposing pieces by exactly one if the destination held an opposing
   piece and by zero otherwise, two-file king moves with their rook relocation
   included. *)
C32_PiecesLeaveOnlyByCapture ==
    [][AcceptedStep
       => /\ PieceCount(board', last'.movingPiece.color)
                = PieceCount(board, last'.movingPiece.color)
          /\ PieceCount(board', Opponent(last'.movingPiece.color))
                = PieceCount(board, Opponent(last'.movingPiece.color))
                  - (IF At(board, last'.to).color = Opponent(last'.movingPiece.color)
                     THEN 1 ELSE 0)]_vars

(* C33: a move request whose from or to has a row or column outside 0..7 is
   rejected: every accepted move has both squares on the board, and the piece
   that moved still stands on the board afterwards. *)
C33_OffBoardRequestsRejected ==
    [][AcceptedStep
       => /\ isValidPosition(last'.from)
          /\ isValidPosition(last'.to)
          /\ SquaresOf(board', last'.movingPiece.id) # {}]_vars

\* The rows of the table moves that belong to the game, in insertion order.
MovesOfGame(gameId) == SelectSeq(db.moves, LAMBDA m : m.game_id = gameId)

(* C34: every move accepted on a room's board is recorded in the game history:
   once the room has its game, the number of moves recorded for the game equals
   the number of accepted moves applied to the room's board, moves made before
   the second player joined included. *)
C34_EveryAcceptedMoveRecorded ==
    (HasRoom(TrackedRoom) /\ rooms[TrackedRoom].gameId # 0)
    => Len(MovesOfGame(rooms[TrackedRoom].gameId)) = nAccepted

(* C35: the move numbers recorded for a game are consecutive 1, 2, 3, ... in
   acceptance order and the game's total_moves equals the last of them; the
   room's move counter increases by exactly one per accepted move of a started
   game and neither it nor the database changes on a rejected move. *)
C35_MoveNumbersConsecutive ==
    /\ [](\A g \in 1..Len(db.games) :
            /\ \A i \in 1..Len(MovesOfGame(g)) : MovesOfGame(g)[i].move_number = i
            /\ db.games[g].total_moves = Len(MovesOfGame(g)))
    /\ [][/\ ((AcceptedStep /\ rooms[TrackedRoom].gameId # 0)
               => /\ rooms'[TrackedRoom].moveCount = rooms[TrackedRoom].moveCount + 1
                  /\ Len(db'.moves) = Len(db.moves) + 1
                  /\ db'.moves[Len(db'.moves)]
                        = [game_id |-> rooms[TrackedRoom].gameId,
                           move_number |-> rooms'[TrackedRoom].moveCount])
           /\ (Rejected(reply') => (rooms' = rooms /\ db' = db))]_vars

\* A move has been rejected in a game that has two recorded moves.
C35_Witness ==
    /\ Rejected(reply)
    /\ HasRoom(TrackedRoom)
    /\ rooms[TrackedRoom].gameId # 0
    /\ rooms[TrackedRoom].moveCount = 2
    /\ Len(MovesOfGame(rooms[TrackedRoom].gameId)) = 2

\* The step is a join_room request answered with the error message.
JoinRefused(message) == reply' = message /\ requester' \in Clients

\* The rows of the table games created for the room code.
GamesOfRoom(roomCode) == {g \in 1..Len(db.games) : db.games[g].room_code = roomCode}

(* C36: join_room on an unknown room code replies "Room not found", and on a room
   that already has a black player replies "Room is full"; in both cases the room
   table, the sockets' room and colour and the database are unchanged; a live
   room has one white player and at most one black player, and at most one game
   row is created per room. *)
C36_JoinErrorsChangeNothing ==
    /\ [](\A roomCode \in RoomCodes :
            /\ Cardinality(GamesOfRoom(roomCode)) <= 1
            /\ HasRoom(roomCode)
                  => /\ rooms[roomCode].white \in Clients
                     /\ rooms[roomCode].black \in Clients \cup {"none"}
                     /\ (rooms[roomCode].gameId # 0) = (rooms[roomCode].black # "none")
                     /\ rooms[roomCode].gameId # 0
                           => GamesOfRoom(roomCode) = {rooms[roomCode].gameId})
    /\ [][/\ (JoinRefused("error: Room not found") \/ JoinRefused("error: Room is full"))
               => (rooms' = rooms /\ wsData' = wsData /\ db' = db /\ board' = board)
           /\ \A roomCode \in RoomCodes :
                 /\ (HasRoom(roomCode) /\ rooms[roomCode].black # "none"
                       /\ rooms'[roomCode].status = "live")
                       => rooms'[roomCode] = [rooms[roomCode] EXCEPT !.moveCount = rooms'[roomCode].moveCount]
                 /\ (reply' = "room_joined" /\ wsData'[requester'].room = roomCode)
                       => (HasRoom(roomCode) /\ rooms[roomCode].black = "none")]_vars

\* A third socket has just been told that the room, with its two players and its
\* game, is full.
C36_Witness ==
    /\ reply = "error: Room is full"
    /\ \E roomCode \in RoomCodes :
          /\ HasRoom(roomCode)
          /\ rooms[roomCode].black \notin {"none", requester, rooms[roomCode].white}
          /\ rooms[roomCode].white # requester
          /\ Cardinality(GamesOfRoom(roomCode)) = 1

\* The colours socket c plays in the live room: the slots of the room that hold it.
ColoursIn(roomCode, c) == {color \in Colors : rooms[roomCode][color] = c}

\* The step is the close handler of socket c.
CloseStep(c) == c \notin closed /\ c \in closed'

\* What the claim expects of the close of socket c, a player of the live room.
Disconnected(roomCode, c) ==
    /\ rooms'[roomCode].status = "deleted"
    /\ \A color \in ColoursIn(roomCode, c) :
          /\ rooms[roomCode][Opponent(color)] # "none"
                => \E i \in 1..Len(outbox') :
                      outbox'[i] = [to |-> rooms[roomCode][Opponent(color)],
                                    type |-> "opponent_disconnected"]
          /\ rooms[roomCode].gameId # 0
                => /\ db'.games[rooms[roomCode].gameId].ended
                   /\ db'.games[rooms[roomCode].gameId].winner
                         \in {Opponent(k) : k \in ColoursIn(roomCode, c)}

(* C37: disconnect handling: when a player of a room disconnects, the opponent
   (if present) is sent opponent_disconnected, a started game is ended with the
   other colour as winner, and the room is deleted; under any interleaving of
   disconnects and move messages endGame is invoked at most once per game and no
   move is applied to a deleted room. *)
C37_DisconnectEndsTheRoom ==
    /\ [](\A g \in 1..Len(db.games) : db.games[g].endGameCalls <= 1)
    /\ [][/\ \A c \in Clients : \A roomCode \in RoomCodes :
                 ((CloseStep(c) /\ HasRoom(roomCode) /\ ColoursIn(roomCode, c) # {})
                  => Disconnected(roomCode, c))
           /\ (AcceptedStep => (HasRoom(TrackedRoom) /\ rooms'[TrackedRoom].status = "live"))]_vars

====
